---- MODULE Spec2Model ----
(***************************************************************************)
(* Reconciliation of Google Cloud resources (Disk, Instance, FirewallRule,  *)
(* ArtifactRegistry): the per-kind resource handlers, the operation poller  *)
(* and the error classifiers, as a state machine.  One behaviour follows    *)
(* one resource of one kind: the caller starts a reconciliation with a      *)
(* phase and a Desired Configuration (props), the handler runs remote call  *)
(* by remote call, and the caller commits the handler's result to the       *)
(* Recorded State (output).                                                 *)
(***************************************************************************)
EXTENDS Integers, Sequences, FiniteSets, TLC

VARIABLES
    kind,       \* the resource kind this behaviour is about
    project,    \* credentials.project as resolved for the call, or Undef
    scope,      \* this.scope: [adopt, local]
    phase,      \* this.phase
    props,      \* the Desired Configuration of the running reconciliation
    output,     \* this.output: the Recorded State, or NoState
    remote,     \* the remote system: address -> object or Absent
    pc,         \* position of the handler
    waitFor,    \* the mutation whose operation is being awaited
    attempt,    \* loop counter of the operation poller
    fetched,    \* currentDisk / currentInstance as read at the start of an update
    calls,      \* remote calls issued by the running reconciliation, in order
    result,     \* how the handler ended: return, destroy, replace, throw
    err,        \* the error thrown, when result = "throw"
    ret,        \* the state returned, when result = "return"
    prevOutput, \* the Recorded State the last reconciliation started from
    failed,     \* the poll timeout a run before this one ended with, and the mutation waited for
    other       \* the reconciliation suspended while this one runs, when two run concurrently

vars == <<kind, project, scope, phase, props, output, remote, pc, waitFor,
          attempt, fetched, calls, result, err, ret, prevOutput, failed, other>>

inputs == <<kind, project, scope, phase, props, output, prevOutput, failed, other>>

----------------------------------------------------------------------------
(* Values *)

Undef == "undefined"
\* a flag that may be left out: props.delete, props.adopt, scope.adopt
T == "true"
F == "false"
MaybeBool == {Undef, T, F}

NoState == [state |-> "none"]
Absent == [object |-> "absent"]
NoErr == [error |-> "none"]
NoRet == [returned |-> "none"]
NoFetch == [fetched |-> "none"]
NoProps == [props |-> "none"]
NoProcess == [process |-> "none"]

Kinds == {"Disk", "Instance", "FirewallRule", "ArtifactRegistry"}
\* util.ts, when its functions are called on their own
Util == "util"
\* what a Promise<void> resolves to
Void == [resolved |-> "void"]
Phases == {"create", "update", "delete"}

\* this.scope.createPhysicalName(id): the generated name of the resource
PhysicalName == "gen"
Names == {PhysicalName, "n1"}
Zones == {"z1", "z2"}
\* firewall rules are global: they have no zone
Global == "global"

\* the names and zones Recorded State starts with: props then name the same
\* place or another one
RecordedNames == {PhysicalName}
RecordedZones == {"z1"}

\* label maps and tag lists, as the sequence of their keys in insertion order;
\* a property that is left out is UndefSeq
UndefSeq == <<"undefined">>
NoLabels == <<>>
PropLabels == {UndefSeq, <<"a">>}
RemoteLabels == {NoLabels, <<"a">>}

\* error codes a remote call can fail with: gRPC NOT_FOUND / ALREADY_EXISTS,
\* HTTP 404 / 409, and one code that is neither
NotFoundCodes == {5, 404}
AlreadyExistsCodes == {6, 409}
OtherCodes == {500}

RemoteError(c) == [code |-> c]
LocalError(m) == [message |-> m]
\* new Error(message, { cause: error })
ErrorWithCause(m, e) == [message |-> m, cause |-> e]

\* the number of fields in which two records of the same shape differ
Diff(a, b) == Cardinality({f \in DOMAIN a : a[f] # b[f]})

----------------------------------------------------------------------------
(* Conflict classifiers *)

\* The classifiers take `error: unknown`.  An object is the record of its
\* fields; a value that is not an object is the record of what typeof says
\* of it and of whether it is truthy.
Primitive(t, b) == [typeof |-> t, truthy |-> b]
Null == Primitive("object", FALSE)
Undefined == Primitive("undefined", FALSE)

typeof(v) == IF "typeof" \in DOMAIN v THEN v.typeof ELSE "object"
truthy(v) == IF "truthy" \in DOMAIN v THEN v.truthy ELSE TRUE

TypeError == [name |-> "TypeError"]

\* key in v: true or false for an object, a TypeError for anything else
hasProperty(key, v) ==
    IF typeof(v) # "object" \/ v = Null THEN "TypeError"
    ELSE IF key \in DOMAIN v THEN T ELSE F

hasCode_unguarded(error) ==
    IF ~truthy(error) THEN F ELSE hasProperty("code", error)

\* error && typeof error === "object" && "code" in error, the condition all
\* five classifiers start with: true, false, or the TypeError it ends in
hasCode(error) ==
    IF ~truthy(error) THEN F
    ELSE IF typeof(error) # "object" THEN F
    ELSE hasProperty("code", error)

\* util.ts: gRPC NOT_FOUND (5) or HTTP 404
isNotFoundError(error) ==
    IF hasCode(error) = T THEN error.code = 5 \/ error.code = 404 ELSE FALSE

\* util.ts: gRPC ALREADY_EXISTS (6) or HTTP 409
isAlreadyExistsError(error) ==
    IF hasCode(error) = T THEN error.code = 6 \/ error.code = 409 ELSE FALSE

\* disk.ts has its own copies, which know the HTTP codes only
Disk_isNotFoundError(error) ==
    IF hasCode(error) = T THEN error.code = 404 ELSE FALSE

Disk_isAlreadyExistsError(error) ==
    IF hasCode(error) = T THEN error.code = 409 ELSE FALSE

\* instance.ts has its own copy of isNotFoundError, HTTP 404 only
Instance_isNotFoundError(error) ==
    IF hasCode(error) = T THEN error.code = 404 ELSE FALSE

----------------------------------------------------------------------------
(* The remote system *)

\* a remote object: the attributes the handlers write and read back
RemoteObject(a, size, labels, tags) ==
    [selfLink |-> a, sizeGb |-> size, labels |-> labels, tags |-> tags]

Locations(k) == IF k = "FirewallRule" THEN {Global} ELSE Zones
Addresses(k) == Names \X Locations(k)

Exists(a) == remote[a] # Absent

\* one call of the running reconciliation, as the remote system sees it
\* and how it ended: NoErr, or the error it failed with
Call(op, a, e) == [op |-> op, name |-> a[1], loc |-> a[2], error |-> e]
Issue(op, a, e) == calls' = Append(calls, Call(op, a, e))

CallsOf(ops) == {i \in 1..Len(calls) : calls[i].op \in ops}
Count(ops) == Cardinality(CallsOf(ops))

\* a call that reaches the remote system may still fail there
TransportErrors == {RemoteError(c) : c \in OtherCodes}
NotFoundErrors == {RemoteError(c) : c \in NotFoundCodes}
AlreadyExistsErrors == {RemoteError(c) : c \in AlreadyExistsCodes}

----------------------------------------------------------------------------
(* How a handler ends *)

Finish(r, e, o) ==
    /\ pc' = "returned"
    /\ result' = r
    /\ err' = e
    /\ ret' = o

\* return this.destroy()
Destroy == Finish("destroy", NoErr, NoRet)
\* return this.replace()
Replace == Finish("replace", NoErr, NoRet)
\* throw error
Throw(e) == Finish("throw", e, NoRet)
\* return { ... }
Return(o) == Finish("return", NoErr, o)

Goto(l) == pc' = l /\ UNCHANGED <<result, err, ret>>

\* the mutation returned an operation: wait for it when it carries a name
Await(m) == pc' = "wait" /\ waitFor' = m /\ attempt' = 0 /\ UNCHANGED <<result, err, ret>>

\* if (operation.name) await waitFor...Operation(...): an operation without a
\* name is not waited for
AwaitIfNamed(m, Continue) ==
    \E named \in BOOLEAN :
        IF named THEN Await(m)
        ELSE Continue /\ UNCHANGED <<waitFor, attempt>>

\* the errors a call addressed to a can fail with
Failures(a) ==
    IF Exists(a) THEN TransportErrors ELSE NotFoundErrors \cup TransportErrors

\* a ?? b
Coalesce(a, b) == IF a # Undef THEN a ELSE b

\* JSON.stringify: label maps and tag lists are kept as the lists of their
\* entries, in insertion order, which is the order JSON.stringify writes them in
stringify(x) == x

----------------------------------------------------------------------------
(* The operation poller *)

\* the structured error lists a failed operation can carry
QuotaExceeded == [code |-> "QUOTA_EXCEEDED", message |-> "quota"]
ZoneExhausted == [code |-> "ZONE_RESOURCE_POOL_EXHAUSTED", message |-> "zone"]
OperationErrors == {<<QuotaExceeded>>, <<ZoneExhausted, QuotaExceeded>>}

\* a text is the sequence of its pieces; strs.join(sep)
RECURSIVE join(_, _)
join(strs, sep) ==
    IF strs = <<>> THEN <<>>
    ELSE IF Len(strs) = 1 THEN strs[1]
    ELSE strs[1] \o <<sep>> \o join(Tail(strs), sep)

describe_first(errors) == <<errors[1].code, ": ", errors[1].message>>

\* errors.map((e) => `${e.code}: ${e.message}`).join(", ")
describe(errors) ==
    join([i \in 1..Len(errors) |-> <<errors[i].code, ": ", errors[i].message>>], ", ")

\* new Error(`Operation failed: ${errors}`)
OperationFailed(errors) == [message |-> "Operation failed: ", errors |-> describe(errors)]
\* new Error(`Operation ${operationName} timed out after ${maxAttempts * delayMs}ms`)
OperationTimedOut(budget) == [message |-> "Operation timed out", after |-> budget]

\* what a status check answers: the operation, with its status and the error
\* list it carries
Running == [status |-> "RUNNING", errors |-> <<>>]
Done(errors) == [status |-> "DONE", errors |-> errors]
NoOperation == [operation |-> "none"]

\* how many status checks the remote system answers "not done" one at a time;
\* an operation still pending after that many stays pending for the rest of
\* the wait, and the remaining iterations of the loop are taken in one step
MaxPending == 1

\* operationsClient.get({ project, zone, operation: operationName }): the
\* call, the error it failed with and the operation it answered
StatusCheck(e, operation) ==
    [op |-> "operations.get", name |-> waitFor, loc |-> "operation",
     error |-> e, operation |-> operation]

----------------------------------------------------------------------------
(* Disk: disk.ts *)

DiskSizes == {5, 10, 20}
MinSizeGb == 10
MaxSizeGb == 65536
DiskTypes == {"pd-standard", "pd-ssd"}

DiskProps ==
    [name : {Undef, "n1"}, zone : Zones, sizeGb : DiskSizes,
     diskType : {Undef, "pd-ssd"}, sourceImage : {Undef, "img"},
     sourceSnapshot : {Undef, "snap"}, labels : PropLabels,
     delete : MaybeBool, adopt : MaybeBool]

DiskOutputs ==
    {[name |-> n, zone |-> z, sizeGb |-> sz, diskType |-> dt, labels |-> l,
      selfLink |-> <<n, z>>] :
        n \in RecordedNames, z \in RecordedZones, sz \in {10, 20},
        dt \in DiskTypes, l \in PropLabels}

\* const name = props.name ?? this.output?.name ?? this.scope.createPhysicalName(id)
NameOf(p, o) ==
    IF p.name # Undef THEN p.name
    ELSE IF o # NoState THEN o.name
    ELSE PhysicalName

ResolvedName == NameOf(props, output)

\* const diskType = props.diskType ?? "pd-standard"
Disk_diskType == IF props.diskType # Undef THEN props.diskType ELSE "pd-standard"

Disk_target == <<ResolvedName, props.zone>>

\* if (props.delete !== false && this.output?.name)
DiskShouldDelete == props.delete # F /\ output # NoState

\* the immutable checks of the update phase: zone, name, diskType
\* replacement on any difference, the size included
DiskRequiresReplacement_onResize ==
    \/ output.zone # props.zone
    \/ output.sizeGb # props.sizeGb

DiskRequiresReplacement ==
    \/ output.zone # props.zone
    \/ output.name # ResolvedName
    \/ output.diskType # Disk_diskType

\* the comparison the other way round
DiskShrinks_reversed == props.sizeGb > output.sizeGb

\* if (sizeGb < this.output.sizeGb)
DiskShrinks == props.sizeGb < output.sizeGb

\* either flag enables adoption
DiskAdopt_either == props.adopt = T \/ scope.adopt = T

\* const adopt = props.adopt ?? this.scope.adopt; if (!adopt) throw
DiskAdopt == Coalesce(props.adopt, scope.adopt) = T

Disk_maxAttempts == 60
Disk_delayMs == 5000

DiskInCreateTry ==
    \/ pc \in {"insert", "getCreated"}
    \/ pc = "wait" /\ waitFor = "insert"

\* where an error thrown by a remote call of the Disk handler goes: the catch of
\* the delete phase, the catch of the create path, or the caller
DiskRaise(e) ==
    IF phase = "delete"
    THEN IF Disk_isNotFoundError(e) THEN Destroy ELSE Throw(e)
    ELSE IF DiskInCreateTry
    THEN IF Disk_isAlreadyExistsError(e)
         THEN IF DiskAdopt THEN Goto("getExisting")
              ELSE Throw(ErrorWithCause("already exists, use adopt: true", e))
         ELSE Throw(e)
    ELSE Throw(e)

\* the recorded size kept where there is one
DiskReturn_recordedSize(disk) ==
    Return([name |-> ResolvedName, zone |-> props.zone,
            sizeGb |-> IF output # NoState THEN output.sizeGb ELSE props.sizeGb,
            diskType |-> Disk_diskType, labels |-> props.labels,
            selfLink |-> disk.selfLink])

\* the state the handler returns, given the disk it read last
DiskReturn(disk) ==
    Return([name |-> ResolvedName, zone |-> props.zone, sizeGb |-> props.sizeGb,
            diskType |-> Disk_diskType, labels |-> props.labels,
            selfLink |-> disk.selfLink])

\* the handler up to its first remote call: credentials, validation, the
\* choice of the phase, the immutable checks and the size check
DiskEntry ==
    /\ pc = "entry" /\ kind = "Disk"
    /\ UNCHANGED <<inputs, remote, waitFor, attempt, fetched, calls>>
    /\ IF project = Undef
       THEN Throw(LocalError("Google Cloud project is required"))
       ELSE IF props.sizeGb < MinSizeGb \/ props.sizeGb > MaxSizeGb
       THEN Throw(LocalError("Disk size must be between 10 and 65536 GB"))
       ELSE IF props.sourceImage # Undef /\ props.sourceSnapshot # Undef
       THEN Throw(LocalError("sourceImage and sourceSnapshot are mutually exclusive"))
       ELSE IF phase = "delete"
       THEN IF DiskShouldDelete THEN Goto("delete") ELSE Destroy
       ELSE IF phase = "update" /\ output # NoState
       THEN IF DiskRequiresReplacement THEN Replace
            ELSE IF output.sizeGb # props.sizeGb
            THEN IF DiskShrinks
                 THEN Throw(LocalError("Cannot decrease disk size"))
                 ELSE Goto("resize")
            ELSE Goto("get")
       ELSE Goto("insert")

\* disksClient.delete({ project, zone, disk: this.output.name })
DiskDelete ==
    /\ pc = "delete" /\ kind = "Disk"
    /\ UNCHANGED <<inputs, fetched>>
    /\ LET a == <<output.name, props.zone>> IN
       /\ \/ /\ Issue("delete", a, NoErr)
             /\ Exists(a)
             /\ remote' = [remote EXCEPT ![a] = Absent]
             /\ AwaitIfNamed("delete", Destroy)
          \/ /\ \E e \in Failures(a) :
                   Issue("delete", a, e) /\ DiskRaise(e)
             /\ UNCHANGED <<remote, waitFor, attempt>>

\* the resize left out when the disk has the size already
DiskResize_unlessResized ==
    /\ pc = "resize" /\ kind = "Disk"
    /\ UNCHANGED <<inputs, fetched>>
    /\ LET a == Disk_target IN
       IF Exists(a) /\ remote[a].sizeGb = props.sizeGb
       THEN Goto("get") /\ UNCHANGED <<remote, waitFor, attempt, calls>>
       ELSE \/ /\ Issue("resize", a, NoErr)
               /\ Exists(a)
               /\ remote' = [remote EXCEPT ![a].sizeGb = props.sizeGb]
               /\ AwaitIfNamed("resize", Goto("get"))
            \/ /\ \E e \in Failures(a) :
                     Issue("resize", a, e) /\ DiskRaise(e)
               /\ UNCHANGED <<remote, waitFor, attempt>>

\* disksClient.resize({ project, zone, disk: name, sizeGb })
DiskResize ==
    /\ pc = "resize" /\ kind = "Disk"
    /\ UNCHANGED <<inputs, fetched>>
    /\ LET a == Disk_target IN
       /\ \/ /\ Issue("resize", a, NoErr)
             /\ Exists(a)
             /\ remote' = [remote EXCEPT ![a].sizeGb = props.sizeGb]
             /\ AwaitIfNamed("resize", Goto("get"))
          \/ /\ \E e \in Failures(a) :
                   Issue("resize", a, e) /\ DiskRaise(e)
             /\ UNCHANGED <<remote, waitFor, attempt>>

\* if (props.labels && JSON.stringify(props.labels) !==
\*     JSON.stringify(currentDisk.labels || {}))
DiskLabelsChanged(currentDisk) ==
    /\ props.labels # UndefSeq
    /\ stringify(props.labels) # stringify(currentDisk.labels)

\* const [currentDisk] = await disksClient.get(...), then the labels check
DiskGet ==
    /\ pc = "get" /\ kind = "Disk"
    /\ UNCHANGED <<inputs, remote, waitFor, attempt>>
    /\ LET a == Disk_target IN
       /\ \/ /\ Issue("get", a, NoErr)
             /\ Exists(a)
             /\ fetched' = remote[a]
             /\ IF DiskLabelsChanged(remote[a])
                THEN Goto("setLabels") ELSE Goto("refresh")
          \/ /\ \E e \in Failures(a) :
                   Issue("get", a, e) /\ DiskRaise(e)
             /\ UNCHANGED fetched

\* disksClient.setLabels({ ..., labels: props.labels, labelFingerprint })
DiskSetLabels ==
    /\ pc = "setLabels" /\ kind = "Disk"
    /\ UNCHANGED <<inputs, fetched>>
    /\ LET a == Disk_target IN
       /\ \/ /\ Issue("setLabels", a, NoErr)
             /\ Exists(a)
             /\ remote' = [remote EXCEPT ![a].labels = props.labels]
             /\ AwaitIfNamed("setLabels", Goto("refresh"))
          \/ /\ \E e \in Failures(a) :
                   Issue("setLabels", a, e) /\ DiskRaise(e)
             /\ UNCHANGED <<remote, waitFor, attempt>>

\* const [updatedDisk] = await disksClient.get(...), then the return
DiskRefresh ==
    /\ pc = "refresh" /\ kind = "Disk"
    /\ UNCHANGED <<inputs, remote, waitFor, attempt, fetched>>
    /\ LET a == Disk_target IN
       /\ \/ Issue("get", a, NoErr) /\ Exists(a) /\ DiskReturn(remote[a])
          \/ \E e \in Failures(a) :
                Issue("get", a, e) /\ DiskRaise(e)

\* disksClient.insert({ project, zone, diskResource })
DiskInsert ==
    /\ pc = "insert" /\ kind = "Disk"
    /\ UNCHANGED <<inputs, fetched>>
    /\ LET a == Disk_target IN
       /\ \/ /\ Issue("insert", a, NoErr)
             /\ ~Exists(a)
             /\ remote' = [remote EXCEPT ![a] =
                    RemoteObject(a, props.sizeGb,
                        IF props.labels = UndefSeq THEN NoLabels ELSE props.labels,
                        <<>>)]
             /\ AwaitIfNamed("insert", Goto("getCreated"))
          \/ /\ \E e \in (IF Exists(a) THEN AlreadyExistsErrors ELSE {})
                          \cup TransportErrors :
                             Issue("insert", a, e) /\ DiskRaise(e)
             /\ UNCHANGED <<remote, waitFor, attempt>>

\* const [createdDisk] = await disksClient.get(...), inside the try
DiskGetCreated ==
    /\ pc = "getCreated" /\ kind = "Disk"
    /\ UNCHANGED <<inputs, remote, waitFor, attempt, fetched>>
    /\ LET a == Disk_target IN
       /\ \/ Issue("get", a, NoErr) /\ Exists(a) /\ DiskReturn(remote[a])
          \/ \E e \in Failures(a) :
                Issue("get", a, e) /\ DiskRaise(e)

\* const [existing] = await disksClient.get(...), in the catch: adoption
DiskGetExisting ==
    /\ pc = "getExisting" /\ kind = "Disk"
    /\ UNCHANGED <<inputs, remote, waitFor, attempt, fetched>>
    /\ LET a == Disk_target IN
       /\ \/ Issue("get", a, NoErr) /\ Exists(a) /\ DiskReturn(remote[a])
          \/ \E e \in Failures(a) :
                Issue("get", a, e) /\ Throw(e)

\* what follows the operation the Disk handler waited for
DiskAfter ==
    CASE waitFor = "delete" -> Destroy
      [] waitFor = "resize" -> Goto("get")
      [] waitFor = "setLabels" -> Goto("refresh")
      [] waitFor = "insert" -> Goto("getCreated")

----------------------------------------------------------------------------
(* Instance: instance.ts *)

MachineTypes == {"e2-medium", "e2-small"}
ImageRefs == {"img1", "img2"}

\* network tags in their sort order, and Array.prototype.sort on a list of
\* distinct tags
TagOrder == <<"a", "b">>
PropTags == {UndefSeq, <<"a">>, <<"b", "a">>}

Range(s) == {s[i] : i \in DOMAIN s}

sort(s) == LET Member(t) == t \in Range(s) IN SelectSeq(TagOrder, Member)

\* container stands for the image reference resolveImageRef(props.container)
\* gives; machineType stands for the attributes fixed at creation that the
\* handler treats alike (machineType, network, sourceImage, diskSizeGb, diskType)
InstanceProps ==
    [name : {Undef, "n1"}, zone : Zones, machineType : {Undef, "e2-small"},
     container : {Undef} \cup ImageRefs, labels : PropLabels, tags : PropTags,
     adopt : MaybeBool]

InstanceOutputs ==
    {[name |-> n, zone |-> z, machineType |-> m, container |-> c,
      labels |-> l, tags |-> t, selfLink |-> <<n, z>>] :
        n \in RecordedNames, z \in RecordedZones, m \in MachineTypes,
        c \in {Undef, "img1"}, l \in PropLabels, t \in {UndefSeq, <<"a">>}}

\* const machineType = props.machineType ?? "e2-medium"
Instance_machineType ==
    IF props.machineType # Undef THEN props.machineType ELSE "e2-medium"

Instance_target == <<ResolvedName, props.zone>>

\* the immutable checks of the update phase: zone, name, container image,
\* presence of a container
InstanceRequiresReplacement ==
    \/ output.zone # props.zone
    \/ output.name # ResolvedName
    \/ props.container # output.container
    \/ (props.container # Undef) # (output.container # Undef)

Instance_maxAttempts == 60
Instance_delayMs == 5000

\* where an error thrown by a remote call of the Instance handler goes: the
\* catch of the delete phase, or the caller
\* the error dropped and the Recorded State handed back
InstanceRaise_swallowed(e) == Return(prevOutput)

InstanceRaise(e) ==
    IF phase = "delete"
    THEN IF Instance_isNotFoundError(e) THEN Destroy ELSE Throw(e)
    ELSE Throw(e)

\* the state the handler returns, given the instance it read last
\* the tags left out of the state
InstanceReturn_withoutTags(instance) ==
    Return([name |-> ResolvedName, zone |-> props.zone,
            machineType |-> Instance_machineType, container |-> props.container,
            labels |-> props.labels, tags |-> UndefSeq,
            selfLink |-> instance.selfLink])

InstanceReturn(instance) ==
    Return([name |-> ResolvedName, zone |-> props.zone,
            machineType |-> Instance_machineType, container |-> props.container,
            labels |-> props.labels, tags |-> props.tags,
            selfLink |-> instance.selfLink])

\* the handler up to its first remote call
InstanceEntry ==
    /\ pc = "entry" /\ kind = "Instance"
    /\ UNCHANGED <<inputs, remote, waitFor, attempt, fetched, calls>>
    /\ IF project = Undef
       THEN Throw(LocalError("Google Cloud project is required"))
       ELSE IF phase = "delete"
       THEN IF output # NoState THEN Goto("delete") ELSE Destroy
       ELSE IF phase = "update" /\ output # NoState
       THEN IF InstanceRequiresReplacement THEN Replace ELSE Goto("get")
       ELSE Goto("insert")

\* instancesClient.delete({ project, zone, instance: this.output.name })
InstanceDelete ==
    /\ pc = "delete" /\ kind = "Instance"
    /\ UNCHANGED <<inputs, fetched>>
    /\ LET a == <<output.name, props.zone>> IN
       /\ \/ /\ Issue("delete", a, NoErr)
             /\ Exists(a)
             /\ remote' = [remote EXCEPT ![a] = Absent]
             /\ AwaitIfNamed("delete", Destroy)
          \/ /\ \E e \in Failures(a) :
                   Issue("delete", a, e) /\ InstanceRaise(e)
             /\ UNCHANGED <<remote, waitFor, attempt>>

InstanceLabelsChanged_never(currentInstance) == FALSE

\* if (props.labels && JSON.stringify(props.labels) !==
\*     JSON.stringify(currentInstance.labels || {}))
InstanceLabelsChanged(currentInstance) ==
    /\ props.labels # UndefSeq
    /\ stringify(props.labels) # stringify(currentInstance.labels)

\* const [currentInstance] = await instancesClient.get(...), then the labels check
InstanceGet ==
    /\ pc = "get" /\ kind = "Instance"
    /\ UNCHANGED <<inputs, remote, waitFor, attempt>>
    /\ LET a == Instance_target IN
       /\ \/ /\ Issue("get", a, NoErr)
             /\ Exists(a)
             /\ fetched' = remote[a]
             /\ IF InstanceLabelsChanged(remote[a])
                THEN Goto("setLabels") ELSE Goto("tagsCheck")
          \/ /\ \E e \in Failures(a) :
                   Issue("get", a, e) /\ InstanceRaise(e)
             /\ UNCHANGED fetched

\* instancesClient.setLabels({ ..., labels: props.labels, labelFingerprint })
InstanceSetLabels ==
    /\ pc = "setLabels" /\ kind = "Instance"
    /\ UNCHANGED <<inputs, fetched>>
    /\ LET a == Instance_target IN
       /\ \/ /\ Issue("setLabels", a, NoErr)
             /\ Exists(a)
             /\ remote' = [remote EXCEPT ![a].labels = props.labels]
             /\ AwaitIfNamed("setLabels", Goto("tagsCheck"))
          \/ /\ \E e \in Failures(a) :
                   Issue("setLabels", a, e) /\ InstanceRaise(e)
             /\ UNCHANGED <<remote, waitFor, attempt>>

\* if (props.tags) { ... JSON.stringify(props.tags.sort()) !==
\*     JSON.stringify(currentTags.sort()) ... }: sort() sorts props.tags in place
InstanceTagsCheck ==
    /\ pc = "tagsCheck" /\ kind = "Instance"
    /\ UNCHANGED <<kind, project, scope, phase, output, prevOutput, failed, other,
                   remote, waitFor, attempt, fetched, calls>>
    /\ IF props.tags # UndefSeq
       THEN /\ props' = [props EXCEPT !.tags = sort(@)]
            /\ IF stringify(sort(props.tags)) # stringify(sort(fetched.tags))
               THEN Goto("setTags") ELSE Goto("refresh")
       ELSE /\ props' = props
            /\ Goto("refresh")

\* instancesClient.setTags({ ..., tagsResource: { items: props.tags, fingerprint } })
InstanceSetTags ==
    /\ pc = "setTags" /\ kind = "Instance"
    /\ UNCHANGED <<inputs, fetched>>
    /\ LET a == Instance_target IN
       /\ \/ /\ Issue("setTags", a, NoErr)
             /\ Exists(a)
             /\ remote' = [remote EXCEPT ![a].tags = props.tags]
             /\ AwaitIfNamed("setTags", Goto("refresh"))
          \/ /\ \E e \in Failures(a) :
                   Issue("setTags", a, e) /\ InstanceRaise(e)
             /\ UNCHANGED <<remote, waitFor, attempt>>

\* const [updatedInstance] = await instancesClient.get(...), then the return
InstanceRefresh ==
    /\ pc = "refresh" /\ kind = "Instance"
    /\ UNCHANGED <<inputs, remote, waitFor, attempt, fetched>>
    /\ LET a == Instance_target IN
       /\ \/ Issue("get", a, NoErr) /\ Exists(a) /\ InstanceReturn(remote[a])
          \/ \E e \in Failures(a) :
                Issue("get", a, e) /\ InstanceRaise(e)

\* instancesClient.insert({ project, zone, instanceResource }): no try around it
InstanceInsert ==
    /\ pc = "insert" /\ kind = "Instance"
    /\ UNCHANGED <<inputs, fetched>>
    /\ LET a == Instance_target IN
       /\ \/ /\ Issue("insert", a, NoErr)
             /\ ~Exists(a)
             /\ remote' = [remote EXCEPT ![a] =
                    RemoteObject(a, 0,
                        IF props.labels = UndefSeq THEN NoLabels ELSE props.labels,
                        IF props.tags = UndefSeq THEN <<>> ELSE props.tags)]
             /\ AwaitIfNamed("insert", Goto("getCreated"))
          \/ /\ \E e \in (IF Exists(a) THEN AlreadyExistsErrors ELSE {})
                          \cup TransportErrors :
                             Issue("insert", a, e) /\ InstanceRaise(e)
             /\ UNCHANGED <<remote, waitFor, attempt>>

\* const [createdInstance] = await instancesClient.get(...), then the return
InstanceGetCreated ==
    /\ pc = "getCreated" /\ kind = "Instance"
    /\ UNCHANGED <<inputs, remote, waitFor, attempt, fetched>>
    /\ LET a == Instance_target IN
       /\ \/ Issue("get", a, NoErr) /\ Exists(a) /\ InstanceReturn(remote[a])
          \/ \E e \in Failures(a) :
                Issue("get", a, e) /\ InstanceRaise(e)

\* what follows the operation the Instance handler waited for
InstanceAfter ==
    CASE waitFor = "delete" -> Destroy
      [] waitFor = "setLabels" -> Goto("tagsCheck")
      [] waitFor = "setTags" -> Goto("refresh")
      [] waitFor = "insert" -> Goto("getCreated")

----------------------------------------------------------------------------
(* FirewallRule: firewall-rule.ts, with util.ts *)

Networks == {"default", "vpc"}
Directions == {"INGRESS", "EGRESS"}
\* priorities are only passed along, never compared in order
Priorities == {"1000", "900"}

FirewallRuleProps ==
    [name : {Undef, "n1"}, network : {Undef, "vpc"}, direction : {Undef, "EGRESS"},
     priority : {Undef, "900"}, adopt : MaybeBool]

FirewallRuleOutputs ==
    {[name |-> n, network |-> nw, direction |-> d, priority |-> pr,
      selfLink |-> <<n, Global>>] :
        n \in RecordedNames, nw \in Networks, d \in Directions, pr \in Priorities}

\* const network = props.network ?? "default"
FirewallRule_network == IF props.network # Undef THEN props.network ELSE "default"
\* const direction = props.direction ?? "INGRESS"
FirewallRule_direction ==
    IF props.direction # Undef THEN props.direction ELSE "INGRESS"
\* const priority = props.priority ?? 1000
FirewallRule_priority == IF props.priority # Undef THEN props.priority ELSE "1000"

FirewallRule_target == <<ResolvedName, Global>>

\* the immutable checks of the update phase: name, network, direction
FirewallRuleRequiresReplacement ==
    \/ output.name # ResolvedName
    \/ output.network # FirewallRule_network
    \/ output.direction # FirewallRule_direction

\* the scope's default ahead of the resource's flag
FirewallRuleAdopt_scopeFirst == Coalesce(scope.adopt, props.adopt) = T

\* const adopt = props.adopt ?? this.scope.adopt; if (!adopt) throw
FirewallRuleAdopt == Coalesce(props.adopt, scope.adopt) = T

\* waitForGlobalOperation(..., maxAttempts = 60, delayMs = 2000)
Global_maxAttempts == 60
Global_delayMs == 2000

FirewallRuleInCreateTry ==
    \/ pc \in {"insert", "getCreated"}
    \/ pc = "wait" /\ waitFor = "insert"

\* the error dropped and the Recorded State handed back
FirewallRuleRaise_swallowed(e) == Return(prevOutput)

\* where an error thrown by a remote call of the FirewallRule handler goes
FirewallRuleRaise(e) ==
    IF phase = "delete"
    THEN IF isNotFoundError(e) THEN Destroy ELSE Throw(e)
    ELSE IF FirewallRuleInCreateTry
    THEN IF isAlreadyExistsError(e)
         THEN IF FirewallRuleAdopt THEN Goto("getExisting")
              ELSE Throw(ErrorWithCause("already exists, use adopt: true", e))
         ELSE Throw(e)
    ELSE Throw(e)

\* the state the handler returns, given the selfLink it ends with
FirewallRuleReturn(selfLink) ==
    Return([name |-> ResolvedName, network |-> FirewallRule_network,
            direction |-> FirewallRule_direction,
            priority |-> FirewallRule_priority, selfLink |-> selfLink])

\* the handler up to its first remote call; with scope.local it returns mock
\* state before it looks at the phase
FirewallRuleEntry ==
    /\ pc = "entry" /\ kind = "FirewallRule"
    /\ UNCHANGED <<inputs, remote, waitFor, attempt, fetched, calls>>
    /\ IF project = Undef
       THEN Throw(LocalError("Google Cloud project is required"))
       ELSE IF scope.local
       THEN FirewallRuleReturn(IF output # NoState THEN output.selfLink
                               ELSE FirewallRule_target)
       ELSE IF phase = "delete"
       THEN IF output # NoState THEN Goto("delete") ELSE Destroy
       ELSE IF phase = "update" /\ output # NoState
       THEN IF FirewallRuleRequiresReplacement THEN Replace ELSE Goto("update")
       ELSE Goto("insert")

\* firewallsClient.delete({ project, firewall: this.output.name })
FirewallRuleDelete ==
    /\ pc = "delete" /\ kind = "FirewallRule"
    /\ UNCHANGED <<inputs, fetched>>
    /\ LET a == <<output.name, Global>> IN
       /\ \/ /\ Issue("delete", a, NoErr)
             /\ Exists(a)
             /\ remote' = [remote EXCEPT ![a] = Absent]
             /\ AwaitIfNamed("delete", Destroy)
          \/ /\ \E e \in Failures(a) :
                   Issue("delete", a, e) /\ FirewallRuleRaise(e)
             /\ UNCHANGED <<remote, waitFor, attempt>>

\* firewallsClient.update({ project, firewall: name, firewallResource }): the
\* whole rule is sent, whatever changed
FirewallRuleUpdate ==
    /\ pc = "update" /\ kind = "FirewallRule"
    /\ UNCHANGED <<inputs, fetched, remote>>
    /\ LET a == FirewallRule_target IN
       /\ \/ /\ Issue("update", a, NoErr)
             /\ Exists(a)
             /\ AwaitIfNamed("update", Goto("getUpdated"))
          \/ /\ \E e \in Failures(a) :
                   Issue("update", a, e) /\ FirewallRuleRaise(e)
             /\ UNCHANGED <<waitFor, attempt>>

\* const [updated] = await firewallsClient.get(...), then the return
FirewallRuleGetUpdated ==
    /\ pc = "getUpdated" /\ kind = "FirewallRule"
    /\ UNCHANGED <<inputs, remote, waitFor, attempt, fetched>>
    /\ LET a == FirewallRule_target IN
       /\ \/ Issue("get", a, NoErr) /\ Exists(a) /\ FirewallRuleReturn(remote[a].selfLink)
          \/ \E e \in Failures(a) :
                Issue("get", a, e) /\ FirewallRuleRaise(e)

\* firewallsClient.insert({ project, firewallResource })
FirewallRuleInsert ==
    /\ pc = "insert" /\ kind = "FirewallRule"
    /\ UNCHANGED <<inputs, fetched>>
    /\ LET a == FirewallRule_target IN
       /\ \/ /\ Issue("insert", a, NoErr)
             /\ ~Exists(a)
             /\ remote' = [remote EXCEPT ![a] = RemoteObject(a, 0, NoLabels, <<>>)]
             /\ AwaitIfNamed("insert", Goto("getCreated"))
          \/ /\ \E e \in (IF Exists(a) THEN AlreadyExistsErrors ELSE {})
                          \cup TransportErrors :
                             Issue("insert", a, e) /\ FirewallRuleRaise(e)
             /\ UNCHANGED <<remote, waitFor, attempt>>

\* const [created] = await firewallsClient.get(...), inside the try
FirewallRuleGetCreated ==
    /\ pc = "getCreated" /\ kind = "FirewallRule"
    /\ UNCHANGED <<inputs, remote, waitFor, attempt, fetched>>
    /\ LET a == FirewallRule_target IN
       /\ \/ Issue("get", a, NoErr) /\ Exists(a) /\ FirewallRuleReturn(remote[a].selfLink)
          \/ \E e \in Failures(a) :
                Issue("get", a, e) /\ FirewallRuleRaise(e)

\* const [existing] = await firewallsClient.get(...), in the catch: adoption
FirewallRuleGetExisting ==
    /\ pc = "getExisting" /\ kind = "FirewallRule"
    /\ UNCHANGED <<inputs, remote, waitFor, attempt, fetched>>
    /\ LET a == FirewallRule_target IN
       /\ \/ Issue("get", a, NoErr) /\ Exists(a) /\ FirewallRuleReturn(remote[a].selfLink)
          \/ \E e \in Failures(a) :
                Issue("get", a, e) /\ Throw(e)

\* what follows the operation the FirewallRule handler waited for
FirewallRuleAfter ==
    CASE waitFor = "delete" -> Destroy
      [] waitFor = "update" -> Goto("getUpdated")
      [] waitFor = "insert" -> Goto("getCreated")

----------------------------------------------------------------------------
(* ArtifactRegistry: artifact-registry.ts, with util.ts *)

Formats == {"docker", "npm"}
KmsKeys == {"k1", "k2"}

ArtifactRegistryProps ==
    [name : {Undef, "n1"}, location : Zones, format : {Undef, "npm"},
     kmsKeyName : {Undef} \cup KmsKeys, labels : PropLabels,
     delete : MaybeBool, adopt : MaybeBool]

ArtifactRegistryOutputs ==
    {[name |-> n, location |-> z, format |-> f, kmsKeyName |-> k,
      labels |-> l, selfLink |-> <<n, z>>] :
        n \in RecordedNames, z \in RecordedZones, f \in Formats,
        k \in {Undef, "k1"}, l \in PropLabels}

\* const format = props.format ?? "docker"
ArtifactRegistry_format == IF props.format # Undef THEN props.format ELSE "docker"

\* const repositoryPath = `projects/${project}/locations/${location}/repositories/${name}`
repositoryPath == <<ResolvedName, props.location>>

\* the Disk handler's condition in its place
ArtifactRegistryShouldDelete_unlessFalse == props.delete # F /\ output # NoState

\* if (props.delete === true && this.output?.name)
ArtifactRegistryShouldDelete == props.delete = T /\ output # NoState

\* the immutable checks of the update phase: location, name, format, and
\* kmsKeyName when props carry one
ArtifactRegistryRequiresReplacement ==
    \/ output.location # props.location
    \/ output.name # ResolvedName
    \/ output.format # ArtifactRegistry_format
    \/ props.kmsKeyName # Undef /\ output.kmsKeyName # props.kmsKeyName

\* const adopt = props.adopt ?? this.scope.adopt; if (!adopt) throw
ArtifactRegistryAdopt == Coalesce(props.adopt, scope.adopt) = T

\* the update mask, of the mutable attributes modelled: labels
updateMask == IF props.labels # UndefSeq THEN <<"labels">> ELSE <<>>

ArtifactRegistryInCreateTry == pc \in {"createRepository", "createPromise"}

\* every error wrapped into a new one
ArtifactRegistryRaise_wrapped(e) == Throw(ErrorWithCause("reconciliation failed", e))

\* where an error thrown by a remote call of the ArtifactRegistry handler goes
ArtifactRegistryRaise(e) ==
    IF phase = "delete"
    THEN IF isNotFoundError(e) THEN Destroy ELSE Throw(e)
    ELSE IF ArtifactRegistryInCreateTry
    THEN IF isAlreadyExistsError(e)
         THEN IF ArtifactRegistryAdopt THEN Goto("getExisting")
              ELSE Throw(ErrorWithCause("already exists, use adopt: true", e))
         ELSE Throw(e)
    ELSE Throw(e)

\* the state the handler returns; resourceName: repository.name || repositoryPath
ArtifactRegistryReturn(resourceName) ==
    Return([name |-> ResolvedName, location |-> props.location,
            format |-> ArtifactRegistry_format, kmsKeyName |-> props.kmsKeyName,
            labels |-> props.labels, selfLink |-> resourceName])

\* the handler up to its first remote call; with scope.local it returns mock
\* state before it looks at the phase
ArtifactRegistryEntry ==
    /\ pc = "entry" /\ kind = "ArtifactRegistry"
    /\ UNCHANGED <<inputs, remote, waitFor, attempt, fetched, calls>>
    /\ IF project = Undef
       THEN Throw(LocalError("Google Cloud project is required"))
       ELSE IF scope.local
       THEN ArtifactRegistryReturn(IF output # NoState THEN output.selfLink
                                   ELSE repositoryPath)
       ELSE IF phase = "delete"
       THEN IF ArtifactRegistryShouldDelete
            THEN Goto("deleteRepository") ELSE Destroy
       ELSE IF phase = "update" /\ output # NoState
       THEN IF ArtifactRegistryRequiresReplacement THEN Replace
            ELSE IF Len(updateMask) > 0 THEN Goto("updateRepository")
            ELSE Goto("getRepository")
       ELSE Goto("createRepository")

\* client.deleteRepository({ name: repositoryPath })
ArtifactRegistryDeleteRepository ==
    /\ pc = "deleteRepository" /\ kind = "ArtifactRegistry"
    /\ UNCHANGED <<inputs, fetched, waitFor, attempt>>
    /\ LET a == repositoryPath IN
       /\ \/ /\ Issue("delete", a, NoErr)
             /\ Exists(a)
             /\ remote' = [remote EXCEPT ![a] = Absent]
             /\ Goto("deletePromise")
          \/ /\ \E e \in Failures(a) :
                   Issue("delete", a, e) /\ ArtifactRegistryRaise(e)
             /\ UNCHANGED remote

\* await operation.promise() of the delete: the client library waits
ArtifactRegistryDeletePromise ==
    /\ pc = "deletePromise" /\ kind = "ArtifactRegistry"
    /\ UNCHANGED <<inputs, fetched, waitFor, attempt, remote>>
    /\ \/ Issue("operation.promise", repositoryPath, NoErr) /\ Destroy
       \/ \E e \in TransportErrors :
             Issue("operation.promise", repositoryPath, e) /\ ArtifactRegistryRaise(e)

\* client.updateRepository({ repository, updateMask }): its result is taken as
\* the repository, nothing is awaited
ArtifactRegistryUpdateRepository ==
    /\ pc = "updateRepository" /\ kind = "ArtifactRegistry"
    /\ UNCHANGED <<inputs, fetched, waitFor, attempt>>
    /\ LET a == repositoryPath IN
       /\ \/ /\ Issue("updateRepository", a, NoErr)
             /\ Exists(a)
             /\ remote' = [remote EXCEPT ![a].labels = props.labels]
             /\ ArtifactRegistryReturn(remote[a].selfLink)
          \/ /\ \E e \in Failures(a) :
                   Issue("updateRepository", a, e) /\ ArtifactRegistryRaise(e)
             /\ UNCHANGED remote

\* const [current] = await client.getRepository({ name: repositoryPath })
ArtifactRegistryGetRepository ==
    /\ pc = "getRepository" /\ kind = "ArtifactRegistry"
    /\ UNCHANGED <<inputs, remote, waitFor, attempt, fetched>>
    /\ LET a == repositoryPath IN
       /\ \/ /\ Issue("get", a, NoErr)
             /\ Exists(a)
             /\ ArtifactRegistryReturn(remote[a].selfLink)
          \/ \E e \in Failures(a) :
                Issue("get", a, e) /\ ArtifactRegistryRaise(e)

\* client.createRepository({ parent, repositoryId: name, repository })
ArtifactRegistryCreateRepository ==
    /\ pc = "createRepository" /\ kind = "ArtifactRegistry"
    /\ UNCHANGED <<inputs, fetched, waitFor, attempt>>
    /\ LET a == repositoryPath IN
       /\ \/ /\ Issue("insert", a, NoErr)
             /\ ~Exists(a)
             /\ remote' = [remote EXCEPT ![a] =
                    RemoteObject(a, 0,
                        IF props.labels = UndefSeq THEN NoLabels ELSE props.labels,
                        <<>>)]
             /\ Goto("createPromise")
          \/ /\ \E e \in (IF Exists(a) THEN AlreadyExistsErrors ELSE {})
                          \cup TransportErrors :
                             Issue("insert", a, e) /\ ArtifactRegistryRaise(e)
             /\ UNCHANGED remote

\* repository = (await operation.promise())[0], inside the try
ArtifactRegistryCreatePromise ==
    /\ pc = "createPromise" /\ kind = "ArtifactRegistry"
    /\ UNCHANGED <<inputs, fetched, waitFor, attempt, remote>>
    /\ LET a == repositoryPath IN
       /\ \/ /\ Issue("operation.promise", a, NoErr)
             /\ Exists(a)
             /\ ArtifactRegistryReturn(remote[a].selfLink)
          \/ \E e \in TransportErrors :
                Issue("operation.promise", a, e) /\ ArtifactRegistryRaise(e)

\* const [existing] = await client.getRepository(...), in the catch: adoption
ArtifactRegistryGetExisting ==
    /\ pc = "getExisting" /\ kind = "ArtifactRegistry"
    /\ UNCHANGED <<inputs, remote, waitFor, attempt, fetched>>
    /\ LET a == repositoryPath IN
       /\ \/ /\ Issue("get", a, NoErr)
             /\ Exists(a)
             /\ ArtifactRegistryReturn(remote[a].selfLink)
          \/ \E e \in Failures(a) :
                Issue("get", a, e) /\ Throw(e)

----------------------------------------------------------------------------
(* Waiting for an operation: the three copies of the polling loop *)

\* the statement after the await of the wait, in the handler that waits
AfterWait ==
    CASE kind = "Disk" -> DiskAfter
      [] kind = "Instance" -> InstanceAfter
      [] kind = "FirewallRule" -> FirewallRuleAfter
      [] kind = Util -> Return(Void)

\* a wait whose error is dropped: the handler goes on as after a finished wait
RaiseFromWait_swallowed(e) == AfterWait

\* where an error thrown inside the wait goes in the handler that waits
RaiseFromWait(e) ==
    CASE kind = "Disk" -> DiskRaise(e)
      [] kind = "Instance" -> InstanceRaise(e)
      [] kind = "FirewallRule" -> FirewallRuleRaise(e)
      [] kind = Util -> Throw(e)

\* ${maxAttempts * delayMs}
budget_ofOneAttempt(maxAttempts, delayMs) == delayMs
budget(maxAttempts, delayMs) == maxAttempts * delayMs

\* for (let attempt = 0; attempt < maxAttempts; attempt++)
loopRuns_inclusive(maxAttempts) == attempt <= maxAttempts
loopRuns(maxAttempts) == attempt < maxAttempts

\* the handlers' waits are followed one iteration at a time for MaxPending
\* iterations, a direct call of the poller for all of them
Stepwise == attempt < MaxPending \/ kind = Util

\* The loop of waitForZoneOperation / waitForGlobalOperation, one iteration a
\* step: a status check, then either the end of the wait or one delay.
pollOperation(maxAttempts, delayMs) ==
    IF loopRuns(maxAttempts)
    THEN \/ \* operation.status === "DONE", no errors
            /\ calls' = Append(calls, StatusCheck(NoErr, Done(<<>>)))
            /\ AfterWait
            /\ UNCHANGED attempt
         \/ \* operation.status === "DONE", operation.error.errors.length > 0
            /\ \E errors \in OperationErrors :
                  /\ calls' = Append(calls, StatusCheck(NoErr, Done(errors)))
                  /\ RaiseFromWait(OperationFailed(errors))
            /\ UNCHANGED attempt
         \/ \* the status check itself fails
            /\ \E e \in TransportErrors \cup NotFoundErrors :
                  /\ calls' = Append(calls, StatusCheck(e, NoOperation))
                  /\ RaiseFromWait(e)
            /\ UNCHANGED attempt
         \/ \* not DONE: setTimeout(resolve, delayMs), next iteration
            /\ IF Stepwise
               THEN /\ calls' = Append(calls, StatusCheck(NoErr, Running))
                    /\ attempt' = attempt + 1
               ELSE /\ calls' = calls \o [i \in 1..(maxAttempts - attempt) |->
                                              StatusCheck(NoErr, Running)]
                    /\ attempt' = maxAttempts
            /\ UNCHANGED <<pc, result, err, ret>>
    ELSE /\ RaiseFromWait(OperationTimedOut(budget(maxAttempts, delayMs)))
         /\ UNCHANGED <<attempt, calls>>

\* disk.ts's waitForZoneOperation, as the Disk handler calls it
Disk_waitForZoneOperation ==
    /\ pc = "wait" /\ kind = "Disk"
    /\ UNCHANGED <<inputs, remote, waitFor, fetched>>
    /\ pollOperation(Disk_maxAttempts, Disk_delayMs)

\* instance.ts's waitForZoneOperation, as the Instance handler calls it
Instance_waitForZoneOperation ==
    /\ pc = "wait" /\ kind = "Instance"
    /\ UNCHANGED <<inputs, remote, waitFor, fetched>>
    /\ pollOperation(Instance_maxAttempts, Instance_delayMs)

\* one status check more than maxAttempts
FirewallRule_waitForGlobalOperation_oneMore ==
    /\ pc = "wait" /\ kind = "FirewallRule"
    /\ UNCHANGED <<inputs, remote, waitFor, fetched>>
    /\ pollOperation(Global_maxAttempts + 1, Global_delayMs)

\* util.ts's waitForGlobalOperation, as the FirewallRule handler calls it
FirewallRule_waitForGlobalOperation ==
    /\ pc = "wait" /\ kind = "FirewallRule"
    /\ UNCHANGED <<inputs, remote, waitFor, fetched>>
    /\ pollOperation(Global_maxAttempts, Global_delayMs)

----------------------------------------------------------------------------
(* The caller: the inputs of a reconciliation and what becomes of its result *)

\* how many attributes of a Desired Configuration may differ from the Recorded
\* State it is reconciled against (from the defaults, without Recorded State)
MaxEdits == 2

Modelled == Kinds

AllAbsent(k) == [a \in Addresses(k) |-> Absent]

\* the remote object a Recorded State stands for, its labels given
Recorded(k, o, l) ==
    RemoteObject(o.selfLink,
                 IF k = "Disk" THEN o.sizeGb ELSE 0,
                 l,
                 IF k = "Instance" /\ o.tags # UndefSeq THEN o.tags ELSE <<>>)

\* The remote systems a reconciliation can start against.  With Recorded
\* State: the recorded object is there, its labels as recorded or changed
\* behind the engine's back, or it is gone.  Without: nothing is there, or one
\* object that the engine does not manage.
Worlds(k, o) ==
    IF o # NoState
    THEN {AllAbsent(k)} \cup
         {[AllAbsent(k) EXCEPT ![o.selfLink] = Recorded(k, o, l)] :
              l \in IF k = "FirewallRule" THEN {NoLabels} ELSE RemoteLabels}
    ELSE {AllAbsent(k)} \cup
         {[AllAbsent(k) EXCEPT ![a] =
              RemoteObject(a, IF k = "Disk" THEN 20 ELSE 0, NoLabels, <<>>)] :
              a \in Addresses(k)}

Outputs(k) ==
    CASE k = "Disk" -> DiskOutputs
      [] k = "Instance" -> InstanceOutputs
      [] k = "FirewallRule" -> FirewallRuleOutputs
      [] k = "ArtifactRegistry" -> ArtifactRegistryOutputs

AllProps(k) ==
    CASE k = "Disk" -> DiskProps
      [] k = "Instance" -> InstanceProps
      [] k = "FirewallRule" -> FirewallRuleProps
      [] k = "ArtifactRegistry" -> ArtifactRegistryProps

OrElse(v, d) == IF v # Undef THEN v ELSE d

\* the Desired Configuration that props stand for, attribute by attribute
Desired(k, p, o) ==
    CASE k = "Disk" ->
            [name |-> NameOf(p, o), zone |-> p.zone, sizeGb |-> p.sizeGb,
             diskType |-> OrElse(p.diskType, "pd-standard"), labels |-> p.labels]
      [] k = "Instance" ->
            [name |-> NameOf(p, o), zone |-> p.zone,
             machineType |-> OrElse(p.machineType, "e2-medium"),
             container |-> p.container, labels |-> p.labels, tags |-> p.tags]
      [] k = "FirewallRule" ->
            [name |-> NameOf(p, o), network |-> OrElse(p.network, "default"),
             direction |-> OrElse(p.direction, "INGRESS"),
             priority |-> OrElse(p.priority, "1000")]
      [] k = "ArtifactRegistry" ->
            [name |-> NameOf(p, o), location |-> p.location,
             format |-> OrElse(p.format, "docker"),
             kmsKeyName |-> p.kmsKeyName, labels |-> p.labels]

\* what a kind's props are when nothing is asked for
Defaults(k) ==
    CASE k = "Disk" ->
            [name |-> PhysicalName, zone |-> "z1", sizeGb |-> 10,
             diskType |-> "pd-standard", labels |-> UndefSeq]
      [] k = "Instance" ->
            [name |-> PhysicalName, zone |-> "z1", machineType |-> "e2-medium",
             container |-> Undef, labels |-> UndefSeq, tags |-> UndefSeq]
      [] k = "FirewallRule" ->
            [name |-> PhysicalName, network |-> "default",
             direction |-> "INGRESS", priority |-> "1000"]
      [] k = "ArtifactRegistry" ->
            [name |-> PhysicalName, location |-> "z1", format |-> "docker",
             kmsKeyName |-> Undef, labels |-> UndefSeq]

\* the configuration to compare the Desired one with: the Recorded State, or
\* the defaults
Base(k, o) ==
    IF o = NoState THEN Defaults(k)
    ELSE [f \in DOMAIN Defaults(k) |-> o[f]]

\* in how many attributes props ask for something else than Base; the source
\* of a Disk (an image, a snapshot, or wrongly both) counts as one
EditsOf(k, p, o) ==
    Diff(Desired(k, p, o), Base(k, o))
    + (IF k = "Disk" /\ (p.sourceImage # Undef \/ p.sourceSnapshot # Undef)
       THEN 1 ELSE 0)

\* a reconciliation reaches the create path without Recorded State only
OnCreatePath(ph, o) == ph # "delete" /\ o = NoState

\* props.delete is read in the delete phase only, props.adopt and scope.adopt on
\* the create path only: elsewhere they are left out
FlagsFit(p, ph, o) ==
    /\ ("delete" \in DOMAIN p /\ ph # "delete") => p.delete = Undef
    /\ ~OnCreatePath(ph, o) => p.adopt = Undef

StartProps(k, ph, o) ==
    {p \in AllProps(k) : FlagsFit(p, ph, o) /\ EditsOf(k, p, o) <= MaxEdits}

Scopes(k, ph, o) ==
    [adopt : IF OnCreatePath(ph, o) THEN MaybeBool ELSE {Undef},
     local : IF k \in {"FirewallRule", "ArtifactRegistry"} THEN BOOLEAN ELSE {FALSE}]

Init ==
    /\ kind \in Modelled
    /\ output \in {NoState} \cup Outputs(kind)
    /\ remote \in Worlds(kind, output)
    /\ project = Undef
    /\ scope = [adopt |-> Undef, local |-> FALSE]
    /\ phase = "none"
    /\ props = NoProps
    /\ pc = "idle"
    /\ waitFor = "none"
    /\ attempt = 0
    /\ fetched = NoFetch
    /\ calls = <<>>
    /\ result = "none"
    /\ err = NoErr
    /\ ret = NoRet
    /\ prevOutput = NoState
    /\ failed = NoErr
    /\ other = NoProcess

\* the caller invokes the handler: a phase, props, the ambient scope and the
\* resolved credentials; phase "create" comes without Recorded State
Start ==
    /\ pc = "idle"
    /\ \E ph \in Phases :
          /\ ph = "create" => output = NoState
          /\ phase' = ph
          /\ props' \in StartProps(kind, ph, output)
          /\ scope' \in Scopes(kind, ph, output)
          /\ project' \in {Undef, "p"}
          \* without a project the handler reads nothing else
          /\ project' = Undef => EditsOf(kind, props', output) = 0 /\ ph = "delete"
    /\ prevOutput' = output
    /\ pc' = "entry"
    /\ UNCHANGED <<kind, output, remote, waitFor, attempt, fetched, calls,
                   result, err, ret, failed, other>>

\* the caller persists the result: a returned state replaces the Recorded
\* State, destroy clears it, a thrown error or a replacement request leaves it
Commit ==
    /\ pc = "returned"
    /\ pc' = "committed"
    /\ output' = CASE result = "return" -> ret
                    [] result = "destroy" -> NoState
                    [] OTHER -> output
    /\ UNCHANGED <<kind, project, scope, phase, props, remote, waitFor, attempt,
                   fetched, calls, result, err, ret, prevOutput, failed, other>>

\* the caller runs the failed reconciliation again, unchanged
Retry ==
    /\ pc = "committed" /\ result = "throw"
    /\ pc' = "entry"
    /\ calls' = <<>>
    /\ result' = "none" /\ err' = NoErr /\ ret' = NoRet
    /\ waitFor' = "none" /\ attempt' = 0 /\ fetched' = NoFetch
    /\ failed' = IF "after" \in DOMAIN err THEN [timeout |-> err, of |-> waitFor] ELSE failed
    /\ UNCHANGED <<kind, project, scope, phase, props, output, prevOutput, remote,
                   other>>

Next ==
    \/ Start
    \/ Commit
    \/ Retry
    \/ DiskEntry
    \/ DiskDelete
    \/ DiskResize
    \/ DiskGet
    \/ DiskSetLabels
    \/ DiskRefresh
    \/ DiskInsert
    \/ DiskGetCreated
    \/ DiskGetExisting
    \/ Disk_waitForZoneOperation
    \/ InstanceEntry
    \/ InstanceDelete
    \/ InstanceGet
    \/ InstanceSetLabels
    \/ InstanceTagsCheck
    \/ InstanceSetTags
    \/ InstanceRefresh
    \/ InstanceInsert
    \/ InstanceGetCreated
    \/ Instance_waitForZoneOperation
    \/ FirewallRuleEntry
    \/ FirewallRuleDelete
    \/ FirewallRuleUpdate
    \/ FirewallRuleGetUpdated
    \/ FirewallRuleInsert
    \/ FirewallRuleGetCreated
    \/ FirewallRuleGetExisting
    \/ FirewallRule_waitForGlobalOperation
    \/ ArtifactRegistryEntry
    \/ ArtifactRegistryDeleteRepository
    \/ ArtifactRegistryDeletePromise
    \/ ArtifactRegistryUpdateRepository
    \/ ArtifactRegistryGetRepository
    \/ ArtifactRegistryCreateRepository
    \/ ArtifactRegistryCreatePromise
    \/ ArtifactRegistryGetExisting

Spec == Init /\ [][Next]_vars

----------------------------------------------------------------------------
(* util.ts called on its own: the classifiers and the pollers as functions *)
(* of their arguments                                                      *)

\* the largest maxAttempts a direct call of a poller is given
MaxAttemptsTried == 3
Zone_delayMs == 5000
DelaysTried == {Global_delayMs, Zone_delayMs}

Pollers == {"waitForZoneOperation", "waitForGlobalOperation"}
Classifiers ==
    {"isNotFoundError", "isAlreadyExistsError", "Disk_isNotFoundError",
     "Disk_isAlreadyExistsError", "Instance_isNotFoundError"}

\* the values a classifier is applied to: null, undefined, values that are
\* not objects, objects without a code, objects with a code
CodesTried == NotFoundCodes \cup AlreadyExistsCodes \cup OtherCodes \cup {0}
ClassifierInputs ==
    {Null, Undefined}
    \cup {Primitive(t, b) : t \in {"string", "number", "boolean"}, b \in BOOLEAN}
    \cup {LocalError("m"), [name |-> "Error"]}
    \cup {RemoteError(c) : c \in CodesTried}
    \cup {[code |-> c, message |-> "m"] : c \in CodesTried}

\* credentials.ts: an object of GoogleCloudClientProps has, for each
\* property, no such property, the property holding undefined, or a value
CredentialProperties == {"project", "keyFilename"}
NoProperty == "no property"
EmptyObject == [k \in CredentialProperties |-> NoProperty]

\* a || b on strings and undefined
OrIfFalsy(a, b) == IF a \in {Undef, ""} THEN b ELSE a

getGlobalGoogleCloudConfig(env) ==
    [project |-> OrIfFalsy(OrIfFalsy(env.GOOGLE_CLOUD_PROJECT, env.GCLOUD_PROJECT), Undef),
     keyFilename |-> OrIfFalsy(env.GOOGLE_APPLICATION_CREDENTIALS, Undef)]

\* { ...a, ...b }: every own property of b, holding undefined or not,
\* replaces a's
Spread(a, b) ==
    [k \in CredentialProperties |-> IF b[k] = NoProperty THEN a[k] ELSE b[k]]

\* Object.fromEntries(Object.entries(o).filter(([_, value]) => value !== undefined))
WithoutUndefined(o) ==
    [k \in CredentialProperties |-> IF o[k] = Undef THEN NoProperty ELSE o[k]]

\* googleCloud is currentScope?.providerCredentials?.googleCloud
resolveGoogleCloudCredentials(env, googleCloud, resourceProps) ==
    LET globalConfig == getGlobalGoogleCloudConfig(env)
        scopeConfig == IF googleCloud = Undefined THEN EmptyObject ELSE googleCloud
        resourceConfig == IF resourceProps = Undefined THEN EmptyObject ELSE resourceProps
    IN  WithoutUndefined(Spread(Spread(globalConfig, scopeConfig), resourceConfig))

EnvironmentsTried ==
    [GOOGLE_CLOUD_PROJECT : {Undef, "", "env-project"},
     GCLOUD_PROJECT : {Undef, "", "gcloud-project"},
     GOOGLE_APPLICATION_CREDENTIALS : {Undef, "", "env-key.json"}]
CredentialObjects(level) ==
    {Undefined} \cup
    [project : {NoProperty, Undef, level \o "-project"},
     keyFilename : {NoProperty, Undef, level \o "-key.json"}]

UtilArguments ==
    [fn : Pollers, maxAttempts : 0..MaxAttemptsTried, delayMs : DelaysTried]
    \cup [fn : Classifiers, error : ClassifierInputs]
    \cup [fn : {"resolveGoogleCloudCredentials"}, env : EnvironmentsTried,
          googleCloud : CredentialObjects("scope"),
          resourceProps : CredentialObjects("resource")]

UtilInit ==
    /\ kind = Util
    /\ props \in UtilArguments
    /\ pc = IF props.fn \in Pollers THEN "wait" ELSE "call"
    /\ output = NoState
    /\ remote = [a \in {} |-> Absent]
    /\ project = "p"
    /\ scope = [adopt |-> Undef, local |-> FALSE]
    /\ phase = "none"
    /\ waitFor = "operation-1"
    /\ attempt = 0
    /\ fetched = NoFetch
    /\ calls = <<>>
    /\ result = "none"
    /\ err = NoErr
    /\ ret = NoRet
    /\ prevOutput = NoState
    /\ failed = NoErr
    /\ other = NoProcess

\* a classifier's call: the boolean it returns, or the TypeError its condition
\* ends in
CallClassifier(value) ==
    /\ IF hasCode(props.error) = "TypeError" THEN Throw(TypeError)
       ELSE Return([value |-> value])
    /\ UNCHANGED <<inputs, remote, waitFor, attempt, fetched, calls>>

util_isNotFoundError ==
    /\ pc = "call" /\ kind = Util /\ props.fn = "isNotFoundError"
    /\ CallClassifier(isNotFoundError(props.error))

util_isAlreadyExistsError ==
    /\ pc = "call" /\ kind = Util /\ props.fn = "isAlreadyExistsError"
    /\ CallClassifier(isAlreadyExistsError(props.error))

disk_isNotFoundError ==
    /\ pc = "call" /\ kind = Util /\ props.fn = "Disk_isNotFoundError"
    /\ CallClassifier(Disk_isNotFoundError(props.error))

disk_isAlreadyExistsError ==
    /\ pc = "call" /\ kind = Util /\ props.fn = "Disk_isAlreadyExistsError"
    /\ CallClassifier(Disk_isAlreadyExistsError(props.error))

instance_isNotFoundError ==
    /\ pc = "call" /\ kind = Util /\ props.fn = "Instance_isNotFoundError"
    /\ CallClassifier(Instance_isNotFoundError(props.error))

\* waitForZoneOperation(client, project, zone, operationName, maxAttempts, delayMs)
util_waitForZoneOperation ==
    /\ pc = "wait" /\ kind = Util /\ props.fn = "waitForZoneOperation"
    /\ UNCHANGED <<inputs, remote, waitFor, fetched>>
    /\ pollOperation(props.maxAttempts, props.delayMs)

\* waitForGlobalOperation(client, project, operationName, maxAttempts, delayMs)
util_waitForGlobalOperation ==
    /\ pc = "wait" /\ kind = Util /\ props.fn = "waitForGlobalOperation"
    /\ UNCHANGED <<inputs, remote, waitFor, fetched>>
    /\ pollOperation(props.maxAttempts, props.delayMs)

\* resolveGoogleCloudCredentials(resourceProps), under the environment and
\* the scope of the call
credentials_resolveGoogleCloudCredentials ==
    /\ pc = "call" /\ kind = Util /\ props.fn = "resolveGoogleCloudCredentials"
    /\ Return(resolveGoogleCloudCredentials(props.env, props.googleCloud,
                                            props.resourceProps))
    /\ UNCHANGED <<inputs, remote, waitFor, attempt, fetched, calls>>

UtilNext ==
    \/ credentials_resolveGoogleCloudCredentials
    \/ util_isNotFoundError
    \/ util_isAlreadyExistsError
    \/ disk_isNotFoundError
    \/ disk_isAlreadyExistsError
    \/ instance_isNotFoundError
    \/ util_waitForZoneOperation
    \/ util_waitForGlobalOperation

UtilSpec == UtilInit /\ [][UtilNext]_vars

----------------------------------------------------------------------------
(* The vocabulary of the properties *)

DataBearing == {"Disk", "ArtifactRegistry"}
Adopting == {"Disk", "FirewallRule", "ArtifactRegistry"}

Mutations ==
    {"insert", "delete", "resize", "setLabels", "setTags", "update",
     "updateRepository"}
InPlaceMutations == Mutations \ {"insert", "delete"}

\* a reconciliation is under way or has ended, and its result is not persisted yet
Reconciling == pc \notin {"idle", "committed"}
Ended == pc \in {"returned", "committed"}

\* the Desired Configuration passes the validation of its kind
ValidProps ==
    kind = "Disk" =>
        /\ props.sizeGb >= MinSizeGb /\ props.sizeGb <= MaxSizeGb
        /\ ~(props.sourceImage # Undef /\ props.sourceSnapshot # Undef)

\* a reconciliation that talks to the remote system: a project is resolved,
\* the scope is not in local development mode, the props are valid
Regular == pc # "idle" /\ project # Undef /\ ~scope.local /\ ValidProps

LastCall == calls[Len(calls)]

\* the attributes the specification lists as immutable, kind by kind
ImmutableAttributes(k) ==
    CASE k = "Disk" -> {"zone", "name", "diskType"}
      [] k = "Instance" -> {"zone", "name", "container"}
      [] k = "FirewallRule" -> {"name", "network", "direction"}
      [] k = "ArtifactRegistry" -> {"name", "location", "format", "kmsKeyName"}

\* and those that Recorded State must keep across in-place updates
RecordedImmutables(k) ==
    ImmutableAttributes(k) \cup (IF k = "Instance" THEN {"machineType"} ELSE {})

ImmutableChanged ==
    \E f \in ImmutableAttributes(kind) :
        Desired(kind, props, prevOutput)[f] # prevOutput[f]

\* the effective adopt decision as the specification defines it
EffectiveAdopt ==
    IF props.adopt # Undef THEN props.adopt = T
    ELSE IF scope.adopt # Undef THEN scope.adopt = T
    ELSE FALSE

\* the positions in calls of a create that failed with already-exists, of a
\* delete that failed with not-found
Conflicts == {i \in CallsOf({"insert"}) : calls[i].error \in AlreadyExistsErrors}
DeletesNotFound == {i \in CallsOf({"delete"}) : calls[i].error \in NotFoundErrors}

IsDedicatedError(e, cause) == "cause" \in DOMAIN e /\ e.cause = cause

----------------------------------------------------------------------------
(* Deletion safety *)

\* C1: for Disk and ArtifactRegistry, a phase=delete reconciliation whose
\* delete flag is not true never issues the remote delete call, ends in
\* destroy, and Recorded State is cleared.
C1_DeleteOnlyWhenFlagged ==
    (Regular /\ kind \in DataBearing /\ phase = "delete" /\ props.delete # T) =>
        /\ Count({"delete"}) = 0
        /\ Ended => result = "destroy"
        /\ pc = "committed" => output = NoState

\* C2: for every kind, when the remote delete call of a phase=delete
\* reconciliation reports not-found, the reconciliation ends in destroy
\* without an error, and Recorded State is cleared.
C2_DeleteOfAbsentIsGone ==
    (Regular /\ phase = "delete" /\ DeletesNotFound # {}) =>
        /\ result = "destroy" /\ err = NoErr
        /\ pc = "committed" => output = NoState

----------------------------------------------------------------------------
(* Replacement *)

\* C3: for every kind, in phase=update with Recorded State, a Desired value of
\* an immutable attribute that differs from the Recorded one makes the
\* reconciliation request replacement, and no in-place mutation is issued.
C3_ImmutableChangeReplaces ==
    (Regular /\ phase = "update" /\ prevOutput # NoState /\ ImmutableChanged) =>
        /\ Count(InPlaceMutations) = 0
        /\ Ended => result = "replace"

\* C4: an in-place update (phase=update with Recorded State, ending with a
\* returned state) returns a Recorded State whose identity and immutable
\* attributes are those of the previous Recorded State.
C4_InPlaceKeepsImmutables ==
    (Regular /\ phase = "update" /\ prevOutput # NoState
        /\ pc = "returned" /\ result = "return") =>
        \A f \in RecordedImmutables(kind) : ret[f] = prevOutput[f]

----------------------------------------------------------------------------
(* Adoption *)

\* the calls that follow call i of the running reconciliation
After(i) == {j \in DOMAIN calls : j > i}

\* C5: when a remote create fails with already-exists and the effective adopt
\* decision is false, the reconciliation fails with the dedicated error whose
\* cause is the conflict error, the failed create is its last remote call, and
\* Recorded State stays as it was.
C5_ConflictWithoutAdoptFails ==
    (Regular /\ kind \in Adopting /\ Conflicts # {} /\ ~EffectiveAdopt) =>
        /\ result = "throw"
        /\ IsDedicatedError(err, LastCall.error)
        /\ Conflicts = {Len(calls)}
        /\ pc = "committed" => output = prevOutput

\* C6: when a remote create fails with already-exists and the effective adopt
\* decision is true, the reconciliation ends after exactly one read and no
\* mutation following the conflict, and when that read succeeds it returns a
\* state whose locator is the one read.
C6_ConflictWithAdoptReadsOnce ==
    (Regular /\ kind \in Adopting /\ Conflicts # {} /\ EffectiveAdopt /\ Ended) =>
        LET i == CHOOSE c \in Conflicts : TRUE IN
        /\ \A j \in After(i) : calls[j].op \notin Mutations
        /\ Cardinality({j \in After(i) : calls[j].op = "get"}) = 1
        /\ LastCall.error = NoErr =>
              /\ result = "return"
              /\ ret.selfLink = remote[<<LastCall.name, LastCall.loc>>].selfLink
        /\ (pc = "committed" /\ result = "return") => output = ret

\* the classifier of already-exists that the running kind uses
Classified(e) ==
    IF kind = "Disk" THEN Disk_isAlreadyExistsError(e) ELSE isAlreadyExistsError(e)

\* C7: once a create conflict is recognised, the handler adopts exactly when
\* the resource-level adopt flag, if defined, is true, else when the scope-level
\* default, if defined, is true, else never; otherwise it fails with the
\* dedicated error.
C7_EffectiveAdoptDecides ==
    (Regular /\ kind \in Adopting /\ calls # <<>> /\ LastCall.op = "insert"
        /\ Classified(LastCall.error)) =>
        IF EffectiveAdopt THEN pc = "getExisting"
        ELSE Ended /\ result = "throw" /\ IsDedicatedError(err, LastCall.error)

\* an explicit adopt=false at the resource wins over a scope default of true
C7_ExplicitFalseWins ==
    /\ Regular /\ kind \in Adopting
    /\ props.adopt = F /\ scope.adopt = T
    /\ calls # <<>> /\ LastCall.op = "insert" /\ Classified(LastCall.error)
    /\ result = "throw" /\ IsDedicatedError(err, LastCall.error)

\* C8: for every kind, Instance included, a create on the create path that
\* fails with already-exists (here in its HTTP form, 409) ends by the Adoption
\* Policy: adopted from a read when adoption is effective, failed with the
\* dedicated error when it is not.
C8_EveryKindAppliesAdoption ==
    (Regular /\ OnCreatePath(phase, prevOutput) /\ Ended
        /\ \E i \in Conflicts : calls[i].error = RemoteError(409)) =>
        LET i == CHOOSE c \in Conflicts : TRUE IN
        IF EffectiveAdopt
        THEN /\ \E j \in After(i) : calls[j].op = "get"
             /\ LastCall.error = NoErr => result = "return"
        ELSE result = "throw" /\ IsDedicatedError(err, calls[i].error)

----------------------------------------------------------------------------
(* Disk capacity *)

DiskUpdate ==
    kind = "Disk" /\ pc # "idle" /\ phase = "update" /\ prevOutput # NoState

\* the reconciliation fails before any remote call with an error of its own,
\* and hands back no state to record
FailedLocally ==
    /\ calls = <<>>
    /\ pc \in {"entry", "returned", "committed"}
    /\ Ended => result = "throw" /\ "message" \in DOMAIN err /\ ret = NoRet
    /\ pc # "committed" => output = prevOutput

\* C9, as stated: for a Disk in phase=update with Recorded State, a Desired
\* sizeGb below the Recorded one always fails validation before any remote call.
C9_ShrinkAlwaysFails ==
    (DiskUpdate /\ props.sizeGb < prevOutput.sizeGb) => FailedLocally

\* C9, amended: it does so when zone, name and diskType are unchanged; when one
\* of them changed, replacement is requested instead.
C9_ShrinkOfSameDiskFails ==
    (DiskUpdate /\ props.sizeGb < prevOutput.sizeGb /\ ~ImmutableChanged) =>
        FailedLocally

C9_ShrinkRejected ==
    /\ DiskUpdate /\ props.sizeGb < prevOutput.sizeGb /\ ~ImmutableChanged
    /\ pc = "returned" /\ calls = <<>>
    /\ err = LocalError("Cannot decrease disk size")

\* the status checks of the resize operation among the calls
ResizePolls ==
    {j \in DOMAIN calls : calls[j].op = "operations.get" /\ calls[j].name = "resize"}

\* what C10 promises of a reconciliation that grows a disk
ResizedInPlace ==
    /\ Count({"resize"}) <= 1
    /\ pc \notin {"entry", "resize"} =>
          Count({"resize"}) = 1 /\ calls[1].op = "resize"
    /\ \A j \in ResizePolls : j - 1 \in ResizePolls \cup {1}
    /\ (pc = "wait" /\ waitFor = "resize") => DOMAIN calls = {1} \cup ResizePolls
    /\ result # "replace"
    /\ result = "return" => ret.sizeGb = props.sizeGb

DiskGrows == DiskUpdate /\ ~ImmutableChanged /\ props.sizeGb > prevOutput.sizeGb

----------------------------------------------------------------------------
(* The operation poller *)

Polling == kind = Util /\ props.fn \in Pollers
StatusChecks == CallsOf({"operations.get"})

\* the i-th call is a status check that answered with an operation
Answered(i) == calls[i].op = "operations.get" /\ calls[i].error = NoErr
StillRunning(i) == Answered(i) /\ calls[i].operation.status # "DONE"
DoneAt(i) == Answered(i) /\ calls[i].operation.status = "DONE"
AllRunning == \A i \in StatusChecks : StillRunning(i)

TimedOut == result = "throw" /\ "after" \in DOMAIN err
Failed == result = "throw" /\ "errors" \in DOMAIN err

\* C11: a poller given maxAttempts never makes more than maxAttempts status
\* checks, and one whose status checks all answered "not done" has, when it
\* ends, made exactly maxAttempts of them and raised the timeout error
C11_ExactlyMaxAttemptsChecks ==
    Polling =>
        /\ Cardinality(StatusChecks) <= props.maxAttempts
        /\ (pc = "returned" /\ AllRunning) =>
               /\ Cardinality(StatusChecks) = props.maxAttempts
               /\ TimedOut

C11_TimedOutAfterAllChecks ==
    /\ Polling /\ pc = "returned" /\ TimedOut
    /\ props.maxAttempts = MaxAttemptsTried
    /\ Cardinality(StatusChecks) = MaxAttemptsTried
    /\ AllRunning

\* the text names every entry of the list, code then message, in the order of
\* the list
Mentions(text, errors) ==
    \E at \in [1..Len(errors) -> 1..Len(text)] :
        /\ \A k \in 1..Len(errors) :
              /\ at[k] + 2 <= Len(text)
              /\ text[at[k]] = errors[k].code
              /\ text[at[k] + 2] = errors[k].message
        /\ \A j, k \in 1..Len(errors) : j < k => at[j] + 2 < at[k]

\* C12: a status check that answers DONE is the poller's last step: no status
\* check and no delay follows it, and the poller has failed with one error
\* naming every entry of the operation's error list in order when that list
\* is not empty, and returned otherwise
C12_DoneEndsThePoll ==
    Polling =>
        \A i \in 1..Len(calls) :
            DoneAt(i) =>
                /\ i = Len(calls)
                /\ attempt = i - 1
                /\ pc = "returned"
                /\ IF calls[i].operation.errors # <<>>
                   THEN Failed /\ Mentions(err.errors, calls[i].operation.errors)
                   ELSE result = "return" /\ ret = Void

C12_FailedWithTwoErrors ==
    /\ Polling /\ pc = "returned" /\ Failed
    /\ Len(calls) > 1
    /\ DoneAt(Len(calls))
    /\ Len(calls[Len(calls)].operation.errors) = 2

\* C13: a poller that has ended has timed out exactly when it made maxAttempts
\* status checks and all of them answered "not done"; the timeout is not the
\* operation-failed error, it reports maxAttempts * delayMs, and one delay was
\* waited after each of the maxAttempts checks
C13_TimeoutIffAllChecksRunning ==
    (Polling /\ pc = "returned") =>
        /\ TimedOut <=> (Cardinality(StatusChecks) = props.maxAttempts /\ AllRunning)
        /\ TimedOut =>
               /\ ~Failed
               /\ \A errors \in OperationErrors : err # OperationFailed(errors)
               /\ err.after = props.maxAttempts * props.delayMs
               /\ attempt = props.maxAttempts

C13_TimedOutWithBudget ==
    /\ Polling /\ pc = "returned" /\ TimedOut
    /\ props.maxAttempts > 1
    /\ err.after = props.maxAttempts * props.delayMs
    /\ attempt = props.maxAttempts

----------------------------------------------------------------------------
(* In-place updates *)

\* an update of a resource that has Recorded State and is there remotely
UpdateOfPresent ==
    /\ Regular /\ phase = "update"
    /\ prevOutput # NoState
    /\ Exists(prevOutput.selfLink)

\* the Desired Configuration asks for what is recorded, in every attribute
NothingChanged == EditsOf(kind, props, prevOutput) = 0

\* C14: an update of a Present resource whose Desired values all equal the
\* Recorded values issues no remote mutation call, whatever the kind
C14_UnchangedUpdateOnlyReads ==
    (UpdateOfPresent /\ NothingChanged) => Count(Mutations) = 0

\* an update of a Disk or an Instance that was made in place and has returned
UpdatedInPlace ==
    /\ UpdateOfPresent /\ kind \in {"Disk", "Instance"}
    /\ pc = "returned" /\ result = "return"

\* a tag list as a value: the order of its items does not count
TagsValue(t) == IF t = UndefSeq THEN UndefSeq ELSE sort(t)

\* C15: an in-place update of a Disk or an Instance has issued exactly one
\* setLabels if the Desired labels differ from the Recorded ones and none if
\* they are equal, and likewise one setTags or none for the tags of an
\* Instance; a value that is left out differs from one that is there
C15_OneCallPerChangedGroup ==
    UpdatedInPlace =>
        /\ Count({"setLabels"}) = (IF props.labels # prevOutput.labels THEN 1 ELSE 0)
        /\ kind = "Instance" =>
               Count({"setTags"}) =
                   (IF TagsValue(props.tags) # TagsValue(prevOutput.tags) THEN 1 ELSE 0)

\* an update that was made in place and has returned, of any kind
CompletedUpdate == UpdateOfPresent /\ pc = "returned" /\ result = "return"

Reads == {"get", "getRepository"}
MutationCalls == CallsOf(InPlaceMutations)
Last(S) == CHOOSE i \in S : \A j \in S : j <= i
ReadsAfterLastMutation == {i \in CallsOf(Reads) : i > Last(MutationCalls)}

\* the status checks between a mutation and the next one: none when the
\* mutation's operation carried no name, else they end with DONE and no error
WaitsBetween(i, j) == {k \in StatusChecks : i < k /\ k < j}
PolledBeforeNext ==
    \A i, j \in MutationCalls :
        (i < j /\ WaitsBetween(i, j) # {}) =>
            LET k == Last(WaitsBetween(i, j)) IN
            DoneAt(k) /\ calls[k].operation.errors = <<>>

\* the reconciliation's last call is a read that succeeded, and the state
\* returned carries what it read
LastReadSupplies ==
    /\ LastCall.op \in Reads /\ LastCall.error = NoErr
    /\ ret.selfLink = remote[<<LastCall.name, LastCall.loc>>].selfLink

\* C16 as stated: in an update phase every mutation's wait has ended with
\* DONE before the next mutation is issued, and a completed in-place update of
\* any kind that made a mutation has read the remote object exactly once
\* after its last mutation, the read supplying the computed output fields
C16_OneReadAfterLastMutation ==
    (Regular /\ phase = "update") =>
        /\ PolledBeforeNext
        /\ (CompletedUpdate /\ MutationCalls # {}) =>
               /\ Cardinality(ReadsAfterLastMutation) = 1
               /\ LastReadSupplies

\* C16: in an update phase every mutation's wait, when its operation carries
\* a name, has ended with DONE before the next mutation is issued; a
\* completed in-place update of a Disk, an Instance or a FirewallRule that
\* made a mutation ends with a read that supplies the computed output
\* fields, the only read after the last mutation unless that mutation is a
\* Disk's resize, which two reads follow; an ArtifactRegistry update ends
\* with its updateRepository call and reads nothing after it
C16_ReadsAfterLastMutation ==
    (Regular /\ phase = "update") =>
        /\ PolledBeforeNext
        /\ (CompletedUpdate /\ MutationCalls # {}) =>
               IF kind = "ArtifactRegistry"
               THEN ReadsAfterLastMutation = {} /\ LastCall.op = "updateRepository"
               ELSE /\ LastReadSupplies
                    /\ Cardinality(ReadsAfterLastMutation) =
                           (IF calls[Last(MutationCalls)].op = "resize" THEN 2 ELSE 1)

C16_ResizedThenLabelled ==
    /\ CompletedUpdate /\ kind = "Disk"
    /\ \E i \in CallsOf({"resize"}) : \E j \in CallsOf({"setLabels"}) :
          /\ WaitsBetween(i, j) # {}
          /\ \E k \in StatusChecks : k > j
    /\ Cardinality(ReadsAfterLastMutation) = 1

----------------------------------------------------------------------------
(* Failures *)

SucceededMutations == {i \in CallsOf(Mutations) : calls[i].error = NoErr}

\* the calls that failed, and the status checks that answered a failed operation
FailedCalls ==
    {i \in 1..Len(calls) :
        \/ calls[i].error # NoErr
        \/ DoneAt(i) /\ calls[i].operation.errors # <<>>}

\* the error the i-th call ends the reconciliation with
ErrorOf(i) ==
    IF calls[i].error # NoErr THEN calls[i].error
    ELSE OperationFailed(calls[i].operation.errors)

AfterSucceededMutation(i) == \E m \in SucceededMutations : m < i

\* C17: in an update, a call or a status check that fails after a mutation of
\* the same reconciliation succeeded is the reconciliation's last call: the
\* handler has thrown that error and returned no state, and no mutation
\* follows; a wait that times out after a succeeded mutation ends it likewise
C17_PartialFailureRaises ==
    (Regular /\ phase = "update" /\ prevOutput # NoState) =>
        /\ \A i \in FailedCalls :
              AfterSucceededMutation(i) =>
                  /\ i = Len(calls)
                  /\ Ended /\ result = "throw" /\ ret = NoRet
                  /\ err = ErrorOf(i)
        /\ (TimedOut /\ SucceededMutations # {}) =>
              /\ Ended /\ ret = NoRet
              /\ StillRunning(Len(calls))

C17_FailedAfterResize ==
    /\ Regular /\ phase = "update" /\ kind = "Disk" /\ pc = "returned"
    /\ \E m \in SucceededMutations :
          /\ calls[m].op = "resize"
          /\ \E i \in FailedCalls : i > m /\ calls[i].op = "setLabels"
    /\ result = "throw"

\* the classifiers the running kind's handler applies in its catch blocks;
\* the Instance handler has no catch on its create path
KindNotFound(e) ==
    CASE kind = "Disk" -> Disk_isNotFoundError(e)
      [] kind = "Instance" -> Instance_isNotFoundError(e)
      [] OTHER -> isNotFoundError(e)

KindAlreadyExists(e) ==
    CASE kind = "Disk" -> Disk_isAlreadyExistsError(e)
      [] kind = "Instance" -> FALSE
      [] OTHER -> isAlreadyExistsError(e)

\* a failure that the handler takes neither for a not-found in the delete
\* phase nor for an already-exists on the create path
Unclassified(e) ==
    /\ ~(phase = "delete" /\ KindNotFound(e))
    /\ ~(OnCreatePath(phase, prevOutput) /\ KindAlreadyExists(e))

\* C18: a remote call that fails with an error the handler classifies neither
\* as not-found in the delete phase nor as already-exists on the create path
\* is the reconciliation's last call: the handler has thrown that same error
\* value and returned nothing, so a failed delete has not ended in destroy
C18_UnclassifiedFailureRaised ==
    Regular =>
        \A i \in 1..Len(calls) :
            (calls[i].error # NoErr /\ Unclassified(calls[i].error)) =>
                /\ i = Len(calls)
                /\ Ended /\ result = "throw"
                /\ err = calls[i].error
                /\ ret = NoRet

C18_FailedDeleteThrows ==
    /\ Regular /\ phase = "delete" /\ pc = "returned"
    /\ calls # <<>> /\ LastCall.op = "delete"
    /\ LastCall.error \in TransportErrors
    /\ result = "throw" /\ err = LastCall.error

----------------------------------------------------------------------------
(* The conflict classifiers *)

\* a classifier was called on its own and the call has ended
ClassifierCalled == kind = Util /\ props.fn \in Classifiers /\ pc = "returned"

NotFoundClassifiers ==
    {"isNotFoundError", "Disk_isNotFoundError", "Instance_isNotFoundError"}

\* the codes the specification has a classifier recognise
Matching(fn) ==
    IF fn \in NotFoundClassifiers THEN NotFoundCodes ELSE AlreadyExistsCodes

HasMatchingCode(fn, error) ==
    hasCode(error) = T /\ error.code \in Matching(fn)

\* C19: each classifier that a kind's handler uses, util.ts's or the kind's
\* own copy, answers true for an error object whose code is the RPC-style or
\* the HTTP-style code of its class: 5 or 404 for not-found, 6 or 409 for
\* already-exists
C19_BothStylesClassified ==
    (ClassifierCalled /\ HasMatchingCode(props.fn, props.error)) =>
        result = "return" /\ ret = [value |-> TRUE]

\* C20: every call of a classifier returns a boolean and raises nothing,
\* whatever it is applied to; it returns false for an input without a code of
\* its class; and no input is both not-found and already-exists
C20_ClassifiersAreTotal ==
    ClassifierCalled =>
        /\ result = "return"
        /\ ret.value \in BOOLEAN
        /\ ~HasMatchingCode(props.fn, props.error) => ret.value = FALSE
        /\ ~(isNotFoundError(props.error) /\ isAlreadyExistsError(props.error))
        /\ ~(Disk_isNotFoundError(props.error) /\ Disk_isAlreadyExistsError(props.error))

C20_NonObjectIsFalse ==
    /\ ClassifierCalled
    /\ props.error = Primitive("string", TRUE)
    /\ result = "return" /\ ret = [value |-> FALSE]

----------------------------------------------------------------------------
(* The delete phase *)

\* a delete phase that has a project to talk to
Deleting == pc # "idle" /\ project # Undef /\ phase = "delete"

\* remote deletion is authorized: always for an Instance and a FirewallRule,
\* by delete: true for a Disk and an ArtifactRegistry
DeleteAuthorized == kind \notin DataBearing \/ props.delete = T

\* the remote system has confirmed the delete: the call succeeded and the wait
\* for its operation, where there was one, ended with DONE and no error
DeleteConfirmed ==
    \E i \in CallsOf({"delete"}) :
        /\ calls[i].error = NoErr
        /\ \/ i = Len(calls)
           \/ LastCall.op = "operation.promise" /\ LastCall.error = NoErr
           \/ DoneAt(Len(calls)) /\ LastCall.operation.errors = <<>>

ReportedNotFound == calls # <<>> /\ LastCall.error \in NotFoundErrors

\* C21: a delete phase with Recorded State whose remote deletion is authorized
\* has, when it ends, issued exactly one remote delete call, and it ends in
\* destroy only after the delete was confirmed or the remote system reported
\* not-found
C21_OneDeleteThenGone ==
    (Deleting /\ ~scope.local /\ prevOutput # NoState /\ DeleteAuthorized /\ Ended) =>
        /\ Count({"delete"}) = 1
        /\ result = "destroy" => (DeleteConfirmed \/ ReportedNotFound)

\* no remote call of the reconciliation failed, other than with not-found
OnlyNotFoundFailures ==
    /\ \A i \in 1..Len(calls) :
          calls[i].error = NoErr \/ calls[i].error \in NotFoundErrors
    /\ FailedCalls \subseteq {i \in 1..Len(calls) : calls[i].error # NoErr}
    /\ ~TimedOut

\* C22: a delete phase in which no remote call fails with anything but
\* not-found ends in destroy, whatever the kind, the props, the Recorded State
\* and the scope's local mode
C22_DeleteAlwaysEndsGone ==
    (Deleting /\ Ended /\ OnlyNotFoundFailures) => result = "destroy"

----------------------------------------------------------------------------
(* The create path *)

\* a reconciliation on the create path that has ended and in which no remote
\* call, no operation and no wait failed
CreatedCleanly ==
    /\ Regular /\ OnCreatePath(phase, prevOutput) /\ Ended
    /\ FailedCalls = {} /\ ~TimedOut

\* the state returned holds the Desired attributes
HoldsDesired ==
    LET d == Desired(kind, props, prevOutput) IN
    \A f \in DOMAIN d : ret[f] = d[f]

\* the status checks of the reconciliation are one wait, between the create
\* and the call after it, that ended with DONE; there is none when the
\* operation carried no name
AwaitedOnce ==
    /\ StatusChecks \subseteq 2..(Len(calls) - 1)
    /\ Len(calls) = 2 + Cardinality(StatusChecks)
    /\ \A i \in StatusChecks : DoneAt(i) <=> i = Len(calls) - 1

\* the create was issued once and first, the reconciliation returned a state
\* holding the Desired attributes and the locator of the created object
CreatedOnce ==
    /\ Count({"insert"}) = 1 /\ calls[1].op = "insert"
    /\ result = "return"
    /\ HoldsDesired
    /\ ret.selfLink = remote[<<LastCall.name, LastCall.loc>>].selfLink

\* C23 as stated: a clean reconciliation on the create path has issued the
\* create once, awaited its operation once, read the created object with one
\* read call, and returned a state that holds the Desired attributes and the
\* fields read, whatever the kind
C23_CreateAwaitRead ==
    CreatedCleanly =>
        /\ CreatedOnce
        /\ Count(Reads) = 1 /\ LastCall.op \in Reads

\* C23: a clean reconciliation on the create path has issued the create once
\* and returned a state that holds the Desired attributes and the locator of
\* the created object; a Disk, an Instance and a FirewallRule have awaited the
\* operation once, when it carries a name, and then read the object with one
\* read call; an ArtifactRegistry has awaited operation.promise() and taken
\* the object from its result, with no read call
C23_CreateOnceThenPresent ==
    CreatedCleanly =>
        /\ CreatedOnce
        /\ IF kind = "ArtifactRegistry"
           THEN /\ Len(calls) = 2 /\ LastCall.op = "operation.promise"
                /\ Count(Reads) = 0
           ELSE /\ Count(Reads) = 1 /\ LastCall.op \in Reads
                /\ AwaitedOnce

C23_DiskCreated ==
    /\ CreatedCleanly /\ kind = "Disk" /\ phase = "create"
    /\ StatusChecks # {}
    /\ result = "return" /\ ret.sizeGb = props.sizeGb
    /\ props.labels # UndefSeq

----------------------------------------------------------------------------
(* What is recorded *)

\* the calls whose result carries the remote object: a read, the awaited
\* result of a create, the result of an update
CarriesObject == Reads \cup {"operation.promise", "updateRepository"}

\* C24: outside local development mode a reconciliation that returns a state
\* has ended with a call that succeeded and whose result carries the remote
\* object, and the state holds the locator of that object, which exists; no
\* state is returned after a create, an adoption read or a refresh read that
\* failed
C24_StateOnlyFromSuccessfulRead ==
    (Regular /\ result = "return") =>
        /\ calls # <<>>
        /\ LastCall.error = NoErr
        /\ LastCall.op \in CarriesObject
        /\ \A i \in FailedCalls : i < Len(calls) /\ calls[i].op = "insert"
        /\ Exists(<<LastCall.name, LastCall.loc>>)
        /\ ret.selfLink = remote[<<LastCall.name, LastCall.loc>>].selfLink

C24_AdoptedFromRead ==
    /\ Regular /\ result = "return" /\ pc = "returned"
    /\ Conflicts # {}
    /\ LastCall.op \in Reads /\ LastCall.error = NoErr
    /\ ret.selfLink = remote[<<LastCall.name, LastCall.loc>>].selfLink

\* C25: a reconciliation under way never changes the props it was given
C25_PropsNeverModified == [][pc # "idle" => props' = props]_vars

\* C26: a Disk or an Instance whose in-place update has returned, with Desired
\* labels that are defined, has these labels remotely and in the state returned
C26_LabelsApplied ==
    (UpdatedInPlace /\ props.labels # UndefSeq) =>
        /\ remote[<<ret.name, ret.zone>>].labels = props.labels
        /\ ret.labels = props.labels

C26_LabelsWritten ==
    /\ UpdatedInPlace /\ props.labels # UndefSeq
    /\ \E i \in CallsOf({"setLabels"}) : calls[i].error = NoErr
    /\ remote[<<ret.name, ret.zone>>].labels = props.labels
    /\ prevOutput.labels # props.labels

----------------------------------------------------------------------------
(* Destroying a repository *)

\* the delete phase of an ArtifactRegistry that has Recorded State, as the
\* destruction of its scope runs it
RepositoryDestroyed ==
    /\ Deleting /\ kind = "ArtifactRegistry" /\ ~scope.local
    /\ prevOutput # NoState

----------------------------------------------------------------------------
(* Credentials *)

Resolved ==
    /\ kind = Util /\ props.fn = "resolveGoogleCloudCredentials"
    /\ pc = "returned" /\ result = "return"

\* the value of property k at each level, Undef when the level has none
ResourceLevel(k) ==
    IF props.resourceProps = Undefined \/ props.resourceProps[k] = NoProperty
    THEN Undef ELSE props.resourceProps[k]
ScopeLevel(k) ==
    IF props.googleCloud = Undefined \/ props.googleCloud[k] = NoProperty
    THEN Undef ELSE props.googleCloud[k]
GlobalLevel(k) == getGlobalGoogleCloudConfig(props.env)[k]

FirstDefined(k) ==
    IF ResourceLevel(k) # Undef THEN ResourceLevel(k)
    ELSE IF ScopeLevel(k) # Undef THEN ScopeLevel(k)
    ELSE GlobalLevel(k)

\* C28: for project and for keyFilename, resolveGoogleCloudCredentials
\* returns the resource-level value when the resource has a defined one,
\* otherwise the scope-level value when defined, otherwise the value of the
\* environment; the property is absent from the result only when it is
\* undefined at all three levels.
C28_ResourceThenScopeThenGlobal ==
    Resolved =>
        \A k \in CredentialProperties :
            ret[k] = IF FirstDefined(k) = Undef THEN NoProperty ELSE FirstDefined(k)

----------------------------------------------------------------------------
(* Replacement *)

UpdateOfRecorded == Regular /\ phase = "update" /\ prevOutput # NoState

\* C29: an ArtifactRegistry update with Recorded State whose Recorded and
\* Desired kmsKeyName differ, a Desired kmsKeyName that is absent while the
\* Recorded one is set included, ends in replacement and not in an in-place
\* update.
C29_KmsKeyChangeReplaces ==
    (/\ UpdateOfRecorded /\ kind = "ArtifactRegistry"
     /\ prevOutput.kmsKeyName # props.kmsKeyName
     /\ pc # "entry") =>
        /\ result = "replace"
        /\ calls = <<>>

\* C30: in a phase=update reconciliation where the Desired value of every
\* immutable attribute equals the Recorded one, no kind requests
\* replacement, whatever differs in labels, tags or the Disk's sizeGb.
C30_ReplaceOnlyOnImmutableChange ==
    (/\ pc # "idle" /\ phase = "update" /\ prevOutput # NoState
     /\ ~ImmutableChanged) =>
        result # "replace"

C30_ResizedInPlace ==
    /\ UpdateOfRecorded /\ kind = "Disk"
    /\ ~ImmutableChanged
    /\ props.sizeGb > prevOutput.sizeGb
    /\ props.labels # prevOutput.labels
    /\ pc = "returned" /\ result = "return"

\* C31: an Instance update with Recorded State whose Desired machineType
\* differs from the Recorded machineType ends in replacement of the instance.
C31_MachineTypeChangeReplaces ==
    (/\ UpdateOfRecorded /\ kind = "Instance"
     /\ Desired(kind, props, prevOutput).machineType # prevOutput.machineType
     /\ pc # "entry") =>
        /\ result = "replace"
        /\ calls = <<>>

----------------------------------------------------------------------------
(* The delete call *)

DeleteIffFlaggedAndRecorded ==
    /\ Count({"delete"}) >= 1 <=> (props.delete = T /\ prevOutput # NoState)
    /\ prevOutput = NoState => (calls = <<>> /\ result = "destroy")

\* C32: a delete phase of an ArtifactRegistry has, when it ends, issued the
\* remote deleteRepository call if and only if props.delete is exactly true
\* and Recorded State holds a name; with no Recorded State it made no remote
\* call and ended in destroy.
C32_DeleteIffFlaggedAndRecorded ==
    (Deleting /\ kind = "ArtifactRegistry" /\ Ended) =>
        DeleteIffFlaggedAndRecorded

----------------------------------------------------------------------------
(* Adoption of a disk *)

\* C33: after a Disk was adopted (its create rejected as already-exists,
\* adoption effective), the sizeGb of the returned Recorded State equals the
\* size of the adopted remote disk as the adoption read returned it.
C33_AdoptedSizeIsRemoteSize ==
    (/\ Regular /\ kind = "Disk" /\ OnCreatePath(phase, prevOutput)
     /\ Conflicts # {}
     /\ pc = "returned" /\ result = "return") =>
        /\ LastCall.op = "get" /\ LastCall.error = NoErr
        /\ ret.sizeGb = remote[ret.selfLink].sizeGb

----------------------------------------------------------------------------
(* Re-running a create whose polling timed out *)

\* the reconciliations of the kinds that poll their operations, and the steps
\* of Next that they take
PollingKinds == {"Disk", "Instance", "FirewallRule"}
PollingInit == Init /\ kind \in PollingKinds
PollingNext ==
    \/ Start
    \/ Commit
    \/ Retry
    \/ DiskEntry
    \/ DiskDelete
    \/ DiskResize
    \/ DiskGet
    \/ DiskSetLabels
    \/ DiskRefresh
    \/ DiskInsert
    \/ DiskGetCreated
    \/ DiskGetExisting
    \/ Disk_waitForZoneOperation
    \/ InstanceEntry
    \/ InstanceDelete
    \/ InstanceGet
    \/ InstanceSetLabels
    \/ InstanceTagsCheck
    \/ InstanceSetTags
    \/ InstanceRefresh
    \/ InstanceInsert
    \/ InstanceGetCreated
    \/ Instance_waitForZoneOperation
    \/ FirewallRuleEntry
    \/ FirewallRuleDelete
    \/ FirewallRuleUpdate
    \/ FirewallRuleGetUpdated
    \/ FirewallRuleInsert
    \/ FirewallRuleGetCreated
    \/ FirewallRuleGetExisting
    \/ FirewallRule_waitForGlobalOperation

\* every step that can be taken is eventually taken: remote calls return, the
\* caller persists the result and runs a failed reconciliation again
LiveSpec == PollingInit /\ [][PollingNext]_vars /\ WF_vars(PollingNext)

CreateTarget ==
    <<ResolvedName,
      CASE kind = "FirewallRule" -> Global
        [] kind = "ArtifactRegistry" -> props.location
        [] OTHER -> props.zone>>

\* the wait for the create's operation timed out, adoption is not enabled,
\* and the object is there
CreatePollTimedOut ==
    /\ Regular /\ OnCreatePath(phase, prevOutput) /\ ~EffectiveAdopt
    /\ pc = "returned" /\ TimedOut /\ waitFor = "insert"
    /\ Exists(CreateTarget)

EndsPresent == pc = "returned" /\ result = "return"

RerunAfterTimeout ==
    /\ Regular /\ OnCreatePath(phase, prevOutput) /\ ~EffectiveAdopt
    /\ failed # NoErr /\ failed.of = "insert"
    /\ Exists(CreateTarget)

----------------------------------------------------------------------------
(* Re-running an update that failed after its resize *)

\* a Disk update that grows the disk finds it at the Desired size already:
\* an earlier run resized it and failed afterwards, so Recorded State still
\* holds the smaller size
AlreadyResized ==
    /\ Regular /\ DiskGrows
    /\ Exists(Disk_target)
    /\ remote[Disk_target].sizeGb = props.sizeGb

\* C35: re-running a Disk update whose resize completed remotely and in which
\* a later step failed issues no second resize call, the disk having the
\* Desired size already.
C35_NoSecondResize ==
    [][AlreadyResized => Count({"resize"})' <= Count({"resize"})]_vars

\* C35, as the handler has it: the re-run compares the Desired size with the
\* Recorded one, goes to the resize and issues it again
C35_RerunResizesAgain ==
    [][(AlreadyResized /\ calls = <<>>) =>
          /\ pc = "entry" => pc' = "resize"
          /\ pc = "resize" => (Len(calls') = 1 /\ calls'[1].op = "resize")]_vars

\* the re-run after the poll of setLabels timed out has issued resize again
C35_ResizedTwice ==
    /\ AlreadyResized
    /\ failed # NoErr /\ failed.of = "setLabels"
    /\ Count({"resize"}) = 1
    /\ pc = "returned" /\ result = "return"

----------------------------------------------------------------------------
(* What counts as deleted *)

\* C36: a delete phase that issued a remote delete ends in destroy only if
\* the delete call itself reported not-found or the delete's operation was
\* seen in terminal success; a not-found error raised by a status check of
\* the operation is propagated.
C36_GoneOnlyAfterConfirmedDelete ==
    (/\ Deleting /\ ~scope.local /\ Count({"delete"}) >= 1
     /\ Ended /\ result = "destroy") =>
        \/ DeletesNotFound # {}
        \/ DeleteConfirmed

----------------------------------------------------------------------------
(* The target of the delete *)

\* C37: the remote delete call of a delete phase is addressed to the object
\* that Recorded State identifies, by its recorded name and its recorded zone
\* or location, whatever name, zone or location the props carry.
C37_DeleteAddressesRecorded ==
    (Deleting /\ prevOutput # NoState) =>
        \A i \in CallsOf({"delete"}) :
            <<calls[i].name, calls[i].loc>> = prevOutput.selfLink

----------------------------------------------------------------------------
(* Two reconciliations on the create path for one name, run concurrently *)

\* what one reconciliation holds of its own; the remote system is shared
Me ==
    [props |-> props, scope |-> scope, phase |-> phase, output |-> output,
     pc |-> pc, waitFor |-> waitFor, attempt |-> attempt, fetched |-> fetched,
     calls |-> calls, result |-> result, err |-> err, ret |-> ret,
     prevOutput |-> prevOutput, failed |-> failed]

\* a reconciliation that is about to enter its handler, without Recorded State
Entering(p, sc, ph) ==
    [props |-> p, scope |-> sc, phase |-> ph, output |-> NoState,
     pc |-> "entry", waitFor |-> "none", attempt |-> 0, fetched |-> NoFetch,
     calls |-> <<>>, result |-> "none", err |-> NoErr, ret |-> NoRet,
     prevOutput |-> NoState, failed |-> NoErr]

\* the props of the race: the generated name, one zone, one size, and the
\* resource's own adopt flag
RaceProps(k) ==
    {p \in StartProps(k, "create", NoState) :
        /\ \A f \in DOMAIN p \ {"adopt", "zone", "sizeGb", "labels", "tags"} :
              p[f] = Undef
        /\ "zone" \in DOMAIN p => p.zone = "z1"
        /\ "sizeGb" \in DOMAIN p => p.sizeGb = 10
        /\ "labels" \in DOMAIN p => p.labels = UndefSeq
        /\ "tags" \in DOMAIN p => p.tags = UndefSeq}

RaceInit ==
    /\ kind \in PollingKinds
    /\ remote \in Worlds(kind, NoState)
    /\ project = "p"
    /\ props \in RaceProps(kind)
    /\ scope \in [adopt : MaybeBool, local : {FALSE}]
    /\ phase \in {"create", "update"}
    /\ output = NoState
    /\ pc = "entry"
    /\ waitFor = "none"
    /\ attempt = 0
    /\ fetched = NoFetch
    /\ calls = <<>>
    /\ result = "none"
    /\ err = NoErr
    /\ ret = NoRet
    /\ prevOutput = NoState
    /\ failed = NoErr
    /\ other \in {Entering(p, scope, ph) :
                     p \in RaceProps(kind), ph \in {"create", "update"}}

\* every remote call and every wait is a suspension point: the other
\* reconciliation runs on from where it was
Switch ==
    /\ other # NoProcess
    /\ other' = Me
    /\ props' = other.props /\ scope' = other.scope /\ phase' = other.phase
    /\ output' = other.output /\ pc' = other.pc /\ waitFor' = other.waitFor
    /\ attempt' = other.attempt /\ fetched' = other.fetched
    /\ calls' = other.calls /\ result' = other.result /\ err' = other.err
    /\ ret' = other.ret /\ prevOutput' = other.prevOutput
    /\ failed' = other.failed
    /\ UNCHANGED <<kind, project, remote>>

RaceNext ==
    \/ Switch
    \/ DiskEntry
    \/ DiskInsert
    \/ DiskGetCreated
    \/ DiskGetExisting
    \/ Disk_waitForZoneOperation
    \/ InstanceEntry
    \/ InstanceInsert
    \/ InstanceGetCreated
    \/ Instance_waitForZoneOperation
    \/ FirewallRuleEntry
    \/ FirewallRuleInsert
    \/ FirewallRuleGetCreated
    \/ FirewallRuleGetExisting
    \/ FirewallRule_waitForGlobalOperation

RaceSpec == RaceInit /\ [][RaceNext]_vars

Racing == other # NoProcess

EffectiveAdoptOf(r) ==
    IF r.props.adopt # Undef THEN r.props.adopt = T
    ELSE IF r.scope.adopt # Undef THEN r.scope.adopt = T
    ELSE FALSE

CallsIn(r, ops) == {i \in 1..Len(r.calls) : r.calls[i].op \in ops}
Accepted(r) == \E i \in CallsIn(r, {"insert"}) : r.calls[i].error = NoErr
RejectedAt(r) ==
    {i \in CallsIn(r, {"insert"}) : r.calls[i].error \in AlreadyExistsErrors}
\* no call of r failed, the rejected create apart
NothingElseFailed(r) ==
    \A i \in 1..Len(r.calls) : r.calls[i].error = NoErr \/ i \in RejectedAt(r)

\* the one whose create was rejected: adopted from a read, or failed with the
\* adoption-not-enabled error whose cause is the conflict
ResolvedByPolicy(r) ==
    IF EffectiveAdoptOf(r)
    THEN /\ r.result = "return"
         /\ r.calls[Len(r.calls)].op = "get"
    ELSE /\ r.result = "throw"
         /\ \E i \in RejectedAt(r) : IsDedicatedError(r.err, r.calls[i].error)

\* C38: of two reconciliations on the create path for the same name that run
\* concurrently, at most one has its create accepted; one whose create was
\* rejected as already-exists fails with the adoption-not-enabled error when
\* adoption is not effective and ends with a state returned from a read of the
\* existing object when it is; neither issues an update or a delete call.
C38_OneCreateWins ==
    Racing =>
        /\ ~(Accepted(Me) /\ Accepted(other))
        /\ \A r \in {Me, other} :
              /\ CallsIn(r, InPlaceMutations \cup {"delete"}) = {}
              /\ (r.pc = "returned" /\ RejectedAt(r) # {} /\ NothingElseFailed(r)) =>
                    ResolvedByPolicy(r)

----------------------------------------------------------------------------
(* Termination *)

ChecksOf(m) == {i \in StatusChecks : calls[i].name = m}

\* the remote calls of the running reconciliation stay within their bounds
WithinBounds ==
    /\ \A m \in Mutations :
          /\ Count({m}) <= 1
          /\ Cardinality(ChecksOf(m)) <= 60
          /\ ChecksOf(m) # {} => Count({m}) = 1
    /\ Count(Reads) <= 2

\* C39: every reconciliation of a Disk, an Instance or a FirewallRule, its
\* remote calls returning, ends with a result or an error, and has made at
\* most 60 status checks for each mutation it issued, at most one mutation
\* of each kind and at most two reads.
C39_TerminatesWithinBounds ==
    /\ [](kind \in PollingKinds => WithinBounds)
    /\ (pc = "entry") ~> (pc = "returned")

\* a wait that used up its 60 status checks and ended the reconciliation
C39_EndedAfterSixtyChecks ==
    /\ kind \in PollingKinds /\ pc = "returned" /\ TimedOut
    /\ \E m \in Mutations :
          Count({m}) = 1 /\ Cardinality(ChecksOf(m)) = 60

====
